---- MODULE Spec2Model ----
(***************************************************************************)
(* FinSight: the broker connection manager (internal/broker/manager.go,    *)
(* the stateless BrokerManager), the credential store behind it            *)
(* (internal/database/broker_repo.go) and the token cache                  *)
(* (internal/cache/cache.go over patrickmn/go-cache).                      *)
(*                                                                         *)
(* Time is counted in hours.  The manager's RWMutex is modelled by who     *)
(* holds it: `call` is the API call that holds the write lock while its    *)
(* upstream Login is in flight, `readers` counts the read locks held.      *)
(* Store statements are taken to execute; a store call fails only where    *)
(* the manager branches on the error it returns.                           *)
(*                                                                         *)
(* Beside the manager the module holds the portfolio services, the merge   *)
(* of holdings, the repositories over the database, the session            *)
(* middleware and the news cache, each under a specification of its own.   *)
(***************************************************************************)
EXTENDS Integers, Sequences, FiniteSets, TLC

VARIABLES now, store, cache, call, ret, readers,
          sweepPc, sweepCreds, sweepIdx, nTicks, nLogins,
          tickPending, sweepsRunning,
          holdingsDb, snapshotAt, pcall, pret, lastRefreshTime, clients,
          mergeInput, mergeOutput,
          credRows, saveCalls, sessions, recCache, sources, nCalls

(* The state of the broker manager and its refresh worker. *)
mvars == <<now, store, cache, call, ret, readers,
           sweepPc, sweepCreds, sweepIdx, nTicks, nLogins,
           tickPending, sweepsRunning>>

(* The state of the portfolio services. *)
pvars == <<holdingsDb, snapshotAt, pcall, pret, lastRefreshTime, clients>>

(* The argument and the result of a merge of holdings. *)
fvars == <<mergeInput, mergeOutput>>

(* The manager's state without the clock and the result of the last call. *)
lvars == <<store, cache, call, readers, sweepPc, sweepCreds, sweepIdx,
           nTicks, nLogins, tickPending, sweepsRunning>>

(* The rows of the broker_credentials table and the SaveCredentials call   *)
(* each connection is in.                                                   *)
dvars == <<credRows, saveCalls>>

(* The rows of the sessions table. *)
avars == <<sessions>>

(* The items of the RecommendationCache and the sources of the NewsFetcher. *)
nvars == <<recCache, sources>>

(* The state of the components next to the manager and the services, with  *)
(* the number of their calls that count against a bound.  These components *)
(* use now as their clock and leave the result of their last call in ret.  *)
ovars == <<dvars, avars, nvars, nCalls>>

vars == <<mvars, pvars, fvars, ovars>>

(* ---------------------------- bounds ----------------------------------- *)
MaxTicks == 1
MaxLogins == 2

(* ------------------------ program constants ---------------------------- *)
ClientTypeZerodha == "zerodha"
ClientTypeICICIDirect == "icici_direct"
KeyZerodhaToken == "zerodha_token"
KeyICICIToken == "icici_token"
MaxAge == 24
RefreshThreshold == 1
CacheTTL == 1
ZerodhaTokenLife == 24
ICICITokenLife == 12

(* ------------------------------ inputs --------------------------------- *)
Users == {"u1", "u2"}
Brokers == {ClientTypeZerodha, ClientTypeICICIDirect}
ClientTypes == Brokers \cup {"upstox"}
RequestTokens == {"", "rt1"}
TickSteps == {24, 25}
ApiKey == "k1"
ApiSecret == "s1"

Pairs == Users \X Brokers
PairOrder == <<<<"u1", ClientTypeZerodha>>, <<"u1", ClientTypeICICIDirect>>,
               <<"u2", ClientTypeZerodha>>, <<"u2", ClientTypeICICIDirect>>>>

(* The access token the broker issues at its n-th successful Login. *)
IssuedToken(n) == "at" \o ToString(n)

(* ------------------------------ cache ---------------------------------- *)
Expired(item, t) == item.Expiration > 0 /\ t > item.Expiration

(* A lookup that returns an item whatever its expiration. *)
CacheFound_IgnoresExpiry(c, key, t) == key \in DOMAIN c

CacheFound(c, key, t) == key \in DOMAIN c /\ ~Expired(c[key], t)

CacheGet(c, key, t) == IF CacheFound(c, key, t) THEN c[key].Object ELSE ""

CacheSet(c, key, value, ttl, t) ==
    [k \in DOMAIN c \cup {key} |->
        IF k = key THEN [Object |-> value, Expiration |-> t + ttl] ELSE c[k]]

CacheDelete(c, key) == [k \in DOMAIN c \ {key} |-> c[k]]

DeleteExpired(c, t) == [k \in {j \in DOMAIN c : ~Expired(c[j], t)} |-> c[k]]

(* Key under which CreateClient, GetClient, RefreshTokens and RemoveClient *)
(* keep the token of a broker type.                                         *)
TokenKey(clientType, userID) ==
    (IF clientType = ClientTypeZerodha THEN KeyZerodhaToken ELSE KeyICICIToken)
        \o ":" \o userID

(* Key under which refreshAllTokens looks the token up. *)
SweepTokenKey(brokerType, userID) == (brokerType \o "_token") \o ":" \o userID

(* ------------------------- credential store ---------------------------- *)
SaveCredentials(s, userID, brokerType, apiKey, apiSecret, token, expiry) ==
    [p \in DOMAIN s \cup {<<userID, brokerType>>} |->
        IF p = <<userID, brokerType>>
        THEN [UserID |-> userID, BrokerType |-> brokerType,
              APIKey |-> apiKey, APISecret |-> apiSecret,
              AccessToken |-> token, TokenExpiry |-> expiry]
        ELSE s[p]]

HasCredentials(s, userID, brokerType) == <<userID, brokerType>> \in DOMAIN s

DeleteCredentials(s, userID, brokerType) ==
    [p \in DOMAIN s \ {<<userID, brokerType>>} |-> s[p]]

RECURSIVE RowsInOrder(_, _)
RowsInOrder(s, order) ==
    IF order = <<>> THEN <<>>
    ELSE (IF Head(order) \in DOMAIN s THEN <<s[Head(order)]>> ELSE <<>>)
            \o RowsInOrder(s, Tail(order))

GetCredentialsForAllUsers(s) == RowsInOrder(s, PairOrder)

GetExpiredTokens(s, t) ==
    SelectSeq(GetCredentialsForAllUsers(s), LAMBDA c : c.TokenExpiry < t)

(* ----------------------------- holdings -------------------------------- *)
HoldingTypeStock == "stock"
HoldingTypeMutualFund == "mutualfund"
PlatformZerodha == "zerodha"
PlatformICICIDirect == "icici"

(* The platform RefreshPortfolio stamps on what a broker returned. *)
PlatformOf(broker) ==
    IF broker = ClientTypeZerodha THEN PlatformZerodha ELSE PlatformICICIDirect

(* float64 values are whole numbers here; the three values below stand for *)
(* the results of a float64 division by zero.                               *)
PosInf == 1000000001
NegInf == -1000000001
NaN == 1000000002

(* (a / b) * 100 in float64, to the whole number below. *)
Percent(a, b) ==
    IF b = 0
    THEN (IF a > 0 THEN PosInf ELSE IF a < 0 THEN NegInf ELSE NaN)
    ELSE (a * 100) \div b

(* a / b in float64, to the whole number below. *)
Quotient(a, b) ==
    IF b = 0
    THEN (IF a > 0 THEN PosInf ELSE IF a < 0 THEN NegInf ELSE NaN)
    ELSE a \div b

Holding(name, isin, qty, avg, value, day, dayPct, pnl, platform, type, t) ==
    [ItemName |-> name, ISIN |-> isin, Quantity |-> qty,
     AveragePrice |-> avg, CurrentValue |-> value, DayChange |-> day,
     DayChangePercent |-> dayPct, TotalPnL |-> pnl, Platform |-> platform,
     Type |-> type, LastUpdated |-> t]

(* What the brokers hold: two stocks with an ISIN and a fund without one. *)
INFY == Holding("INFY", "INE009A01021", 10, 1000, 11000, 100, 1, 1000,
                "", HoldingTypeStock, 0)
TCS == Holding("TCS", "INE467B01029", 5, 2000, 11000, -50, 0, 1000,
               "", HoldingTypeStock, 0)
FUND == Holding("NIFTYBEES", "", 5, 1000, 5500, 0, 0, 500,
                "", HoldingTypeMutualFund, 0)

(* A short position: the net quantity and the value are negative. *)
SHORT == Holding("INFY", "", -15, 1100, -16500, 50, 0, 50,
                 "", HoldingTypeStock, 0)

HoldingLists == {<<INFY, FUND>>}
PositionLists == {<<TCS>>, <<SHORT>>}

(* A broker client returns its holdings with its own platform and the time *)
(* of the call.                                                             *)
Stamp(hs, platform, t) ==
    [i \in 1..Len(hs) |->
        [hs[i] EXCEPT !.Platform = platform, !.LastUpdated = t]]

RECURSIVE SumSeq(_)
SumSeq(xs) == IF xs = <<>> THEN 0 ELSE Head(xs) + SumSeq(Tail(xs))

SumCurrentValue(hs) == SumSeq([i \in 1..Len(hs) |-> hs[i].CurrentValue])
SumDayChange(hs) == SumSeq([i \in 1..Len(hs) |-> hs[i].DayChange])
SumTotalPnL(hs) == SumSeq([i \in 1..Len(hs) |-> hs[i].TotalPnL])
SumQuantity(hs) == SumSeq([i \in 1..Len(hs) |-> hs[i].Quantity])

(* The keys of a list in the order in which they first occur.  Go ranges   *)
(* over the map of groups in an unspecified order; no total depends on it. *)
RECURSIVE KeysInOrder(_, _)
KeysInOrder(ks, seen) ==
    IF ks = <<>> THEN <<>>
    ELSE IF Head(ks) \in seen
         THEN KeysInOrder(Tail(ks), seen)
         ELSE <<Head(ks)>> \o KeysInOrder(Tail(ks), seen \cup {Head(ks)})

(* A key that is the ISIN even when the ISIN is empty. *)
UserKey_IsinOnly(h) == h.ISIN

(* mergeHoldings of the user service: holdings with one key become one    *)
(* holding that carries the sums of the group.                              *)
UserKey(h) ==
    IF h.ISIN # "" THEN h.ISIN ELSE (h.ItemName \o "_") \o h.Platform

MergeGroup(g, t) ==
    IF Len(g) = 1 THEN g[1]
    ELSE LET q == SumQuantity(g)
             v == SumCurrentValue(g)
             d == SumDayChange(g)
         IN Holding(g[1].ItemName, g[1].ISIN, q,
                    IF q > 0 THEN Quotient(v, q) ELSE 0,
                    v, d,
                    IF v > 0 THEN Percent(d, v - d) ELSE 0,
                    SumTotalPnL(g), g[1].Platform, g[1].Type, t)

(* A merge that returns its argument. *)
mergeHoldings_NoGrouping(hs, t) == hs

mergeHoldings(hs, t) ==
    LET ks == KeysInOrder([i \in 1..Len(hs) |-> UserKey(hs[i])], {})
    IN [i \in 1..Len(ks) |->
           MergeGroup(SelectSeq(hs, LAMBDA h : UserKey(h) = ks[i]), t)]

(* mergeHoldings of the single-portfolio service: of the holdings with one *)
(* key the one updated last is kept.                                        *)
ServiceKey(h) ==
    IF h.ISIN # "" THEN h.ISIN ELSE (h.Platform \o ":") \o h.ItemName

mergeTwoHoldings(a, b) == IF a.LastUpdated > b.LastUpdated THEN a ELSE b

RECURSIVE MergeAll(_, _)
MergeAll(acc, g) ==
    IF g = <<>> THEN acc
    ELSE MergeAll(mergeTwoHoldings(acc, Head(g)), Tail(g))

ServiceMergeHoldings(hs) ==
    LET ks == KeysInOrder([i \in 1..Len(hs) |-> ServiceKey(hs[i])], {})
    IN [i \in 1..Len(ks) |->
           LET g == SelectSeq(hs, LAMBDA h : ServiceKey(h) = ks[i])
           IN MergeAll(Head(g), Tail(g))]

(* ----------------------------- portfolio ------------------------------- *)
(* The Portfolio both services build over a list of holdings. *)
MakePortfolio(hs, t) ==
    LET tv == SumCurrentValue(hs)
        td == SumDayChange(hs)
    IN [Holdings |-> hs, TotalValue |-> tv, TotalDayChange |-> td,
        TotalDayChangePct |-> IF tv > 0 THEN Percent(td, tv) ELSE 0,
        TotalPnL |-> SumTotalPnL(hs), LastUpdated |-> t]

OfType(hs, holdingType) ==
    IF holdingType \in {"", "all"} THEN hs
    ELSE SelectSeq(hs, LAMBDA h : h.Type = holdingType)

HoldingTypes == {"", HoldingTypeStock}

(* The four upstream calls of a refresh, in the order of the code. *)
Fetches == Brokers \X {"holdings", "positions"}
FetchOrder == <<<<ClientTypeZerodha, "holdings">>,
                <<ClientTypeZerodha, "positions">>,
                <<ClientTypeICICIDirect, "holdings">>,
                <<ClientTypeICICIDirect, "positions">>>>

(* A result slot of a refresh: not called, called and running, or done    *)
(* with a list or an error.                                                 *)
EmptySlot == [state |-> "none", err |-> FALSE, list |-> <<>>]
NoSlots == [f \in Fetches |-> EmptySlot]
NoCalls == [f \in Fetches |-> 0]

(* pcall is the portfolio call in flight with its local variables and      *)
(* whether the context it was given is done (cancelled or past its         *)
(* deadline); pret is                                                       *)
(* what the portfolio call that completed in the last step returned, with  *)
(* the slots and the upstream call counts it ended with.                    *)
NoPCall == [op |-> "none", userID |-> "", force |-> FALSE,
            holdingType |-> "", stage |-> "", allHoldings |-> <<>>,
            slots |-> NoSlots, calls |-> NoCalls, ctxDone |-> FALSE]

PRet(op, userID, force, holdingType, err, refreshed, saveFailed, portfolio, slotsAtEnd, callsAtEnd) ==
    [op |-> op, userID |-> userID, force |-> force,
     holdingType |-> holdingType, err |-> err, refreshed |-> refreshed,
     saveFailed |-> saveFailed, portfolio |-> portfolio,
     slots |-> slotsAtEnd, calls |-> callsAtEnd]

NoPortfolio == MakePortfolio(<<>>, 0)

NoPRet == PRet("none", "", FALSE, "", "", FALSE, FALSE, NoPortfolio,
               NoSlots, NoCalls)

(* No merge has been asked for. *)
NoMerge == [fn |-> "none", out |-> <<>>]
MergeInit == mergeInput = <<>> /\ mergeOutput = NoMerge

PortfolioInit ==
    /\ holdingsDb = [u \in Users |-> <<>>]
    /\ snapshotAt = [u \in Users |-> -1]
    /\ pcall = NoPCall
    /\ pret = NoPRet
    /\ lastRefreshTime = 0
    /\ clients = [b \in Brokers |-> FALSE]

(* ----------------------------- database -------------------------------- *)
(* The connections over which repository calls arrive side by side. *)
Conns == {"c1", "c2"}

NoSave == [pc |-> "idle", n |-> 0, userID |-> "", brokerType |-> "",
           apiKey |-> "", found |-> FALSE]

DbRet(op, conn, userID, err, failAt) ==
    [op |-> op, conn |-> conn, userID |-> userID, err |-> err,
     failAt |-> failAt]

NoDbRet == DbRet("none", "", "", "", 0)

DatabaseInit ==
    /\ credRows = {}
    /\ saveCalls = [c \in Conns |-> NoSave]

(* ----------------------------- sessions -------------------------------- *)
AuthRet(userID, token, status) ==
    [userID |-> userID, token |-> token, status |-> status]

NoAuthRet == AuthRet("", "", "none")

AuthInit == sessions = {}

(* ------------------------------- news ---------------------------------- *)
Source(name, url) == [Name |-> name, URL |-> url]

(* GetDefaultSources, with the first of its sources. *)
DefaultSources == <<Source("MoneyControl", "https://www.moneycontrol.com/rss/business.xml")>>

NewsRet(op, source, err) == [op |-> op, source |-> source, err |-> err]

NoNewsRet == NewsRet("none", Source("", ""), "")

NewsInit ==
    /\ recCache = <<>>
    /\ sources = DefaultSources

OtherInit == DatabaseInit /\ AuthInit /\ NewsInit /\ nCalls = 0

(* ----------------------------- results --------------------------------- *)
(* ret is what the manager call that completed in the last step returned   *)
(* to its caller; NoRet after a step in which no call returned.  err is    *)
(* the error ("" for nil, "panic" for a nil dereference), found tells      *)
(* whether a client came back, token is that client's GetAccessToken().    *)
NoCall == [op |-> "none", userID |-> "", clientType |-> "", token |-> ""]

Ret(op, userID, clientType, err, found, token) ==
    [op |-> op, userID |-> userID, clientType |-> clientType,
     err |-> err, found |-> found, token |-> token]

NoRet == Ret("none", "", "", "", FALSE, "")

LockFree == call = NoCall /\ readers = 0

(* A reader is admitted when no writer holds the lock and none is queued. *)
ReadLockFree == call = NoCall /\ sweepPc \notin {"cleanupWait", "blocked"}

(* NewBrokerManager constructs the manager on its own: no portfolio        *)
(* service exists beside it.                                                *)
NoPortfolioService ==
    /\ holdingsDb = <<>>
    /\ snapshotAt = <<>>
    /\ pcall = <<>>
    /\ pret = <<>>
    /\ lastRefreshTime = 0
    /\ clients = <<>>

Init ==
    /\ now = 0
    /\ store = <<>>
    /\ cache = <<>>
    /\ call = NoCall
    /\ ret = NoRet
    /\ readers = 0
    /\ sweepPc = "idle"
    /\ sweepCreds = <<>>
    /\ sweepIdx = 0
    /\ nTicks = 0
    /\ nLogins = 0
    /\ tickPending = FALSE
    /\ sweepsRunning = 0
    /\ NoPortfolioService
    /\ MergeInit
    /\ OtherInit

(* ------------------------ BrokerManager API ---------------------------- *)
(* CreateClient up to its call of client.Login, which it makes holding     *)
(* the write lock.                                                          *)
CreateClient(clientType, userID, requestToken) ==
    /\ LockFree
    /\ IF clientType \notin Brokers
       THEN /\ ret' = Ret("CreateClient", userID, clientType,
                          "unknown client type", FALSE, "")
            /\ call' = call
       ELSE IF requestToken = ""
       THEN /\ ret' = Ret("CreateClient", userID, clientType, "", TRUE, "")
            /\ call' = call
       ELSE /\ call' = [op |-> "CreateClient", userID |-> userID,
                        clientType |-> clientType, token |-> requestToken]
            /\ ret' = NoRet
    /\ UNCHANGED <<now, store, cache, readers, sweepPc, sweepCreds,
                   sweepIdx, nTicks, nLogins>>
    /\ UNCHANGED <<tickPending, sweepsRunning, pvars, fvars, ovars>>

(* CreateClient without the check of the error of client.Login. *)
CreateClientLogin_NoLoginCheck(loginOk, saveOk) ==
    /\ call.op = "CreateClient"
    /\ loginOk => nLogins < MaxLogins
    /\ call' = NoCall
    /\ nLogins' = IF loginOk THEN nLogins + 1 ELSE nLogins
    /\ LET token == IF loginOk THEN IssuedToken(nLogins') ELSE ""
       IN IF ~saveOk
          THEN /\ ret' = Ret("CreateClient", call.userID, call.clientType,
                             "failed to update access token in database",
                             FALSE, "")
               /\ UNCHANGED <<store, cache>>
          ELSE /\ store' = SaveCredentials(store, call.userID,
                               call.clientType, ApiKey, ApiSecret,
                               call.token, now + MaxAge)
               /\ cache' = CacheSet(cache,
                               TokenKey(call.clientType, call.userID),
                               token, MaxAge, now)
               /\ ret' = Ret("CreateClient", call.userID, call.clientType,
                             "", TRUE, token)
    /\ UNCHANGED <<now, readers, sweepPc, sweepCreds, sweepIdx, nTicks>>
    /\ UNCHANGED <<tickPending, sweepsRunning, pvars, fvars, ovars>>

(* CreateClient that leaves the expiry of a credential it already finds in *)
(* the store as it is.                                                      *)
CreateClientLogin_StaleExpiry(loginOk, saveOk) ==
    /\ call.op = "CreateClient"
    /\ loginOk => nLogins < MaxLogins
    /\ call' = NoCall
    /\ IF ~loginOk
       THEN /\ ret' = Ret("CreateClient", call.userID, call.clientType,
                          "failed to login", FALSE, "")
            /\ UNCHANGED <<store, cache, nLogins>>
       ELSE /\ nLogins' = nLogins + 1
            /\ IF ~saveOk
               THEN /\ ret' = Ret("CreateClient", call.userID, call.clientType,
                                  "failed to update access token in database",
                                  FALSE, "")
                    /\ UNCHANGED <<store, cache>>
               ELSE /\ store' = SaveCredentials(store, call.userID,
                                    call.clientType, ApiKey, ApiSecret,
                                    call.token,
                                    IF HasCredentials(store, call.userID,
                                                      call.clientType)
                                    THEN store[<<call.userID,
                                            call.clientType>>].TokenExpiry
                                    ELSE now + MaxAge)
                    /\ cache' = CacheSet(cache,
                                    TokenKey(call.clientType, call.userID),
                                    IssuedToken(nLogins'), MaxAge, now)
                    /\ ret' = Ret("CreateClient", call.userID, call.clientType,
                                  "", TRUE, IssuedToken(nLogins'))
    /\ UNCHANGED <<now, readers, sweepPc, sweepCreds, sweepIdx, nTicks>>
    /\ UNCHANGED <<tickPending, sweepsRunning, pvars, fvars, ovars>>

(* The rest of CreateClient, from the return of client.Login. *)
CreateClientLogin(loginOk, saveOk) ==
    /\ call.op = "CreateClient"
    /\ loginOk => nLogins < MaxLogins
    /\ call' = NoCall
    /\ IF ~loginOk
       THEN /\ ret' = Ret("CreateClient", call.userID, call.clientType,
                          "failed to login", FALSE, "")
            /\ UNCHANGED <<store, cache, nLogins>>
       ELSE /\ nLogins' = nLogins + 1
            /\ IF ~saveOk
               THEN /\ ret' = Ret("CreateClient", call.userID, call.clientType,
                                  "failed to update access token in database",
                                  FALSE, "")
                    /\ UNCHANGED <<store, cache>>
               ELSE /\ store' = SaveCredentials(store, call.userID,
                                    call.clientType, ApiKey, ApiSecret,
                                    call.token, now + MaxAge)
                    /\ cache' = CacheSet(cache,
                                    TokenKey(call.clientType, call.userID),
                                    IssuedToken(nLogins'), MaxAge, now)
                    /\ ret' = Ret("CreateClient", call.userID, call.clientType,
                                  "", TRUE, IssuedToken(nLogins'))
    /\ UNCHANGED <<now, readers, sweepPc, sweepCreds, sweepIdx, nTicks>>
    /\ UNCHANGED <<tickPending, sweepsRunning, pvars, fvars, ovars>>

(* GetClient that falls back to the stored token when the cache has none. *)
GetClient_StoredTokenFallback(userID, clientType, dbOk) ==
    /\ ReadLockFree
    /\ ret' =
        IF ~dbOk THEN Ret("GetClient", userID, clientType, "", FALSE, "")
        ELSE IF clientType \notin Brokers
        THEN Ret("GetClient", userID, clientType, "", FALSE, "")
        ELSE IF ~HasCredentials(store, userID, clientType)
        THEN Ret("GetClient", userID, clientType, "panic", FALSE, "")
        ELSE IF CacheFound(cache, TokenKey(clientType, userID), now)
        THEN Ret("GetClient", userID, clientType, "", TRUE,
                 CacheGet(cache, TokenKey(clientType, userID), now))
        ELSE Ret("GetClient", userID, clientType, "", TRUE,
                 store[<<userID, clientType>>].AccessToken)
    /\ UNCHANGED <<now, store, cache, call, readers, sweepPc, sweepCreds,
                   sweepIdx, nTicks, nLogins>>
    /\ UNCHANGED <<tickPending, sweepsRunning, pvars, fvars, ovars>>

(* GetClient runs under the read lock and makes no upstream call.  With no *)
(* row GetCredentials returns (nil, nil) and the broker branches read      *)
(* creds.APIKey through the nil pointer.                                    *)
GetClient(userID, clientType, dbOk) ==
    /\ ReadLockFree
    /\ ret' =
        IF ~dbOk THEN Ret("GetClient", userID, clientType, "", FALSE, "")
        ELSE IF clientType \notin Brokers
        THEN Ret("GetClient", userID, clientType, "", FALSE, "")
        ELSE IF ~HasCredentials(store, userID, clientType)
        THEN Ret("GetClient", userID, clientType, "panic", FALSE, "")
        ELSE IF CacheFound(cache, TokenKey(clientType, userID), now)
        THEN Ret("GetClient", userID, clientType, "", TRUE,
                 CacheGet(cache, TokenKey(clientType, userID), now))
        ELSE Ret("GetClient", userID, clientType, "", FALSE, "")
    /\ UNCHANGED <<now, store, cache, call, readers, sweepPc, sweepCreds,
                   sweepIdx, nTicks, nLogins>>
    /\ UNCHANGED <<tickPending, sweepsRunning, pvars, fvars, ovars>>

(* RemoveClient that drops every session of the user, whatever the type. *)
RemoveClient_AllOfUser(userID, clientType) ==
    /\ LockFree
    /\ IF clientType \in Brokers
       THEN /\ cache' = CacheDelete(CacheDelete(cache,
                            TokenKey(ClientTypeZerodha, userID)),
                            TokenKey(ClientTypeICICIDirect, userID))
            /\ store' = DeleteCredentials(DeleteCredentials(store, userID,
                            ClientTypeZerodha), userID, ClientTypeICICIDirect)
       ELSE UNCHANGED <<store, cache>>
    /\ ret' = Ret("RemoveClient", userID, clientType, "", FALSE, "")
    /\ UNCHANGED <<now, call, readers, sweepPc, sweepCreds, sweepIdx,
                   nTicks, nLogins>>
    /\ UNCHANGED <<tickPending, sweepsRunning, pvars, fvars, ovars>>

RemoveClient(userID, clientType) ==
    /\ LockFree
    /\ IF clientType \in Brokers
       THEN /\ cache' = CacheDelete(cache, TokenKey(clientType, userID))
            /\ store' = DeleteCredentials(store, userID, clientType)
       ELSE UNCHANGED <<store, cache>>
    /\ ret' = Ret("RemoveClient", userID, clientType, "", FALSE, "")
    /\ UNCHANGED <<now, call, readers, sweepPc, sweepCreds, sweepIdx,
                   nTicks, nLogins>>
    /\ UNCHANGED <<tickPending, sweepsRunning, pvars, fvars, ovars>>

(* RefreshTokens called with the credential the store holds for a pair,    *)
(* up to its call of client.Login under the write lock.                     *)
RefreshTokens(userID, brokerType) ==
    /\ LockFree
    /\ HasCredentials(store, userID, brokerType)
    /\ LET cred == store[<<userID, brokerType>>]
       IN IF cred.AccessToken = ""
          THEN /\ ret' = Ret("RefreshTokens", cred.UserID, cred.BrokerType,
                             "", FALSE, "")
               /\ call' = call
          ELSE /\ call' = [op |-> "RefreshTokens", userID |-> cred.UserID,
                           clientType |-> cred.BrokerType,
                           token |-> cred.AccessToken]
               /\ ret' = NoRet
    /\ UNCHANGED <<now, store, cache, readers, sweepPc, sweepCreds,
                   sweepIdx, nTicks, nLogins>>
    /\ UNCHANGED <<tickPending, sweepsRunning, pvars, fvars, ovars>>

(* RefreshTokens that deletes the credential whose Login failed. *)
RefreshTokensLogin_DeleteOnFailure(loginOk) ==
    /\ call.op = "RefreshTokens"
    /\ loginOk => nLogins < MaxLogins
    /\ call' = NoCall
    /\ IF ~loginOk
       THEN /\ ret' = Ret("RefreshTokens", call.userID, call.clientType,
                          "failed to login", FALSE, "")
            /\ store' = DeleteCredentials(store, call.userID, call.clientType)
            /\ UNCHANGED <<cache, nLogins>>
       ELSE /\ nLogins' = nLogins + 1
            /\ cache' = CacheSet(cache, TokenKey(call.clientType, call.userID),
                                 IssuedToken(nLogins'), MaxAge, now)
            /\ ret' = Ret("RefreshTokens", call.userID, call.clientType,
                          "", TRUE, IssuedToken(nLogins'))
            /\ store' = store
    /\ UNCHANGED <<now, readers, sweepPc, sweepCreds, sweepIdx, nTicks>>
    /\ UNCHANGED <<tickPending, sweepsRunning, pvars, fvars, ovars>>

(* The rest of RefreshTokens, from the return of client.Login. *)
RefreshTokensLogin(loginOk) ==
    /\ call.op = "RefreshTokens"
    /\ loginOk => nLogins < MaxLogins
    /\ call' = NoCall
    /\ IF ~loginOk
       THEN /\ ret' = Ret("RefreshTokens", call.userID, call.clientType,
                          "failed to login", FALSE, "")
            /\ UNCHANGED <<cache, nLogins>>
       ELSE /\ nLogins' = nLogins + 1
            /\ cache' = CacheSet(cache, TokenKey(call.clientType, call.userID),
                                 IssuedToken(nLogins'), MaxAge, now)
            /\ ret' = Ret("RefreshTokens", call.userID, call.clientType,
                          "", TRUE, IssuedToken(nLogins'))
    /\ UNCHANGED <<now, store, readers, sweepPc, sweepCreds, sweepIdx,
                   nTicks>>
    /\ UNCHANGED <<tickPending, sweepsRunning, pvars, fvars, ovars>>

(* --------------------------- refresh worker ---------------------------- *)
(* startRefreshWorker is one goroutine that ranges over ticker.C and runs   *)
(* the loop body (cleanupStaleClients, then refreshAllTokens) for each tick *)
(* it receives.  ticker.C holds at most one tick: tickPending is that       *)
(* buffered tick, sweepsRunning counts the executions of the loop body in   *)
(* progress.                                                                *)

(* The ticker fires while the worker waits in the range: the worker        *)
(* receives the tick and enters the loop body, which starts with           *)
(* cleanupStaleClients asking for the write lock.                           *)
SweepTick ==
    /\ sweepPc = "idle"
    /\ sweepPc' = "cleanupWait"
    /\ sweepsRunning' = sweepsRunning + 1
    /\ ret' = NoRet
    /\ UNCHANGED <<now, store, cache, call, readers, sweepCreds,
                   sweepIdx, nTicks, nLogins, tickPending, pvars, fvars, ovars>>

(* A worker that starts a goroutine of its own for every tick. *)
TickerFire_SpawnsSweep ==
    /\ sweepPc # "idle"
    /\ ~tickPending
    /\ tickPending' = TRUE
    /\ sweepsRunning' = sweepsRunning + 1
    /\ ret' = NoRet
    /\ UNCHANGED <<now, store, cache, call, readers, sweepPc, sweepCreds,
                   sweepIdx, nTicks, nLogins, pvars, fvars, ovars>>

(* The ticker fires while the worker is in the loop body: the tick stays   *)
(* in ticker.C (a tick that finds the channel full is dropped).            *)
TickerFire ==
    /\ sweepPc # "idle"
    /\ ~tickPending
    /\ tickPending' = TRUE
    /\ ret' = NoRet
    /\ UNCHANGED <<now, store, cache, call, readers, sweepPc, sweepCreds,
                   sweepIdx, nTicks, nLogins, sweepsRunning, pvars, fvars, ovars>>

(* The loop body has returned: the worker is back in the range and takes   *)
(* the buffered tick at once if there is one.                               *)
SweepReturns ==
    IF tickPending
    THEN /\ sweepPc' = "cleanupWait"
         /\ tickPending' = FALSE
         /\ sweepsRunning' = sweepsRunning
    ELSE /\ sweepPc' = "idle"
         /\ tickPending' = FALSE
         /\ sweepsRunning' = sweepsRunning - 1

cleanupStaleClients ==
    /\ sweepPc = "cleanupWait"
    /\ LockFree
    /\ cache' = DeleteExpired(cache, now)
    /\ sweepPc' = "cleaned"
    /\ ret' = NoRet
    /\ UNCHANGED <<now, store, call, readers, sweepCreds, sweepIdx,
                   nTicks, nLogins>>
    /\ UNCHANGED <<tickPending, sweepsRunning, pvars, fvars, ovars>>

(* refreshAllTokens takes the read lock and lists the credentials; on an   *)
(* error of the listing it returns without releasing the lock.              *)
refreshAllTokens(dbOk) ==
    /\ sweepPc = "cleaned"
    /\ call = NoCall
    /\ readers' = readers + 1
    /\ IF dbOk
       THEN /\ sweepCreds' = GetCredentialsForAllUsers(store)
            /\ sweepIdx' = 1
            /\ sweepPc' = "loop"
            /\ UNCHANGED <<tickPending, sweepsRunning>>
       ELSE /\ SweepReturns
            /\ UNCHANGED <<sweepCreds, sweepIdx>>
    /\ ret' = NoRet
    /\ UNCHANGED <<now, store, cache, call, nTicks, nLogins, pvars, fvars, ovars>>

(* One iteration of the loop of refreshAllTokens.  A credential whose key  *)
(* is not found makes it call RefreshTokens, which asks for the write lock *)
(* while this goroutine holds the read lock.                                *)
refreshAllTokensStep ==
    /\ sweepPc = "loop"
    /\ IF sweepIdx > Len(sweepCreds)
       THEN /\ readers' = readers - 1
            /\ SweepReturns
            /\ sweepCreds' = <<>>
            /\ sweepIdx' = 0
       ELSE LET cred == sweepCreds[sweepIdx]
                found == CacheFound(cache,
                            SweepTokenKey(cred.BrokerType, cred.UserID), now)
            IN /\ sweepPc' = IF found THEN "loop" ELSE "blocked"
               /\ sweepIdx' = IF found THEN sweepIdx + 1 ELSE sweepIdx
               /\ UNCHANGED <<readers, sweepCreds, tickPending,
                              sweepsRunning>>
    /\ ret' = NoRet
    /\ UNCHANGED <<now, store, cache, call, nTicks, nLogins, pvars, fvars, ovars>>

(* The clock advances between calls; an upstream Login returns within the  *)
(* hour in which it was made.                                               *)
Tick(d) ==
    /\ call = NoCall
    /\ nTicks < MaxTicks
    /\ nTicks' = nTicks + 1
    /\ now' = now + d
    /\ ret' = NoRet
    /\ UNCHANGED <<store, cache, call, readers, sweepPc, sweepCreds,
                   sweepIdx, nLogins>>
    /\ UNCHANGED <<tickPending, sweepsRunning, pvars, fvars, ovars>>

Next ==
    \/ \E t \in ClientTypes, u \in Users, rt \in RequestTokens :
            CreateClient(t, u, rt)
    \/ \E loginOk \in BOOLEAN, saveOk \in BOOLEAN :
            CreateClientLogin(loginOk, saveOk)
    \/ \E u \in Users, t \in ClientTypes, dbOk \in BOOLEAN :
            GetClient(u, t, dbOk)
    \/ \E u \in Users, t \in Brokers : RemoveClient(u, t)
    \/ \E u \in Users, b \in Brokers : RefreshTokens(u, b)
    \/ \E loginOk \in BOOLEAN : RefreshTokensLogin(loginOk)
    \/ SweepTick
    \/ TickerFire
    \/ cleanupStaleClients
    \/ \E dbOk \in BOOLEAN : refreshAllTokens(dbOk)
    \/ refreshAllTokensStep
    \/ \E d \in TickSteps : Tick(d)

Spec == Init /\ [][Next]_vars

(* ===================== the user portfolio service ====================== *)
(* UserService (GetPortfolio and RefreshPortfolio by userID) over the      *)
(* portfolio_holdings table and the broker manager.  A refresh asks the    *)
(* manager for the client of each broker in turn and calls GetHoldings and *)
(* GetPositions on the clients it gets.                                     *)

(* The credential and token CreateClient leaves for a pair connected at    *)
(* hour 0; "stale" is a pair whose row outlived the cache (a restart).     *)
ConnStates == {"none", "live", "stale"}
ConnSetups ==
    {c \in [Pairs -> ConnStates] :
        /\ \E b \in Brokers : c[<<"u1", b>>] = "live"
        /\ \A b \in Brokers : c[<<"u2", b>>] = "stale"}

RECURSIVE StoreOf(_, _)
StoreOf(c, order) ==
    IF order = <<>> THEN <<>>
    ELSE LET p == Head(order)
             rest == StoreOf(c, Tail(order))
         IN IF c[p] = "none" THEN rest
            ELSE SaveCredentials(rest, p[1], p[2], ApiKey, ApiSecret,
                                 "rt1", MaxAge)

RECURSIVE CacheOf(_, _)
CacheOf(c, order) ==
    IF order = <<>> THEN <<>>
    ELSE LET p == Head(order)
             rest == CacheOf(c, Tail(order))
         IN IF c[p] = "live"
            THEN CacheSet(rest, TokenKey(p[2], p[1]), IssuedToken(1),
                          MaxAge, 0)
            ELSE rest

(* The holdings table outlives the process: u2 has a snapshot from hour 0. *)
InitUser ==
    /\ now = 0
    /\ \E c \in ConnSetups :
          /\ store = StoreOf(c, PairOrder)
          /\ cache = CacheOf(c, PairOrder)
    /\ call = NoCall
    /\ ret = NoRet
    /\ readers = 0
    /\ sweepPc = "idle"
    /\ sweepCreds = <<>>
    /\ sweepIdx = 0
    /\ nTicks = 0
    /\ nLogins = 0
    /\ tickPending = FALSE
    /\ sweepsRunning = 0
    /\ holdingsDb = [u \in Users |->
            IF u = "u2" THEN Stamp(<<INFY, FUND>>, PlatformZerodha, 0)
            ELSE <<>>]
    /\ snapshotAt = [u \in Users |-> IF u = "u2" THEN 0 ELSE -1]
    /\ pcall = NoPCall
    /\ pret = NoPRet
    /\ lastRefreshTime = 0
    /\ clients = [b \in Brokers |-> FALSE]
    /\ MergeInit
    /\ OtherInit

(* What BrokerManager.GetClient does for a pair when the credential lookup *)
(* returns no error: it panics on a missing row, finds the client when the *)
(* token is in the cache, and finds none otherwise.                         *)
ClientOf(userID, clientType) ==
    IF ~HasCredentials(store, userID, clientType) THEN "panic"
    ELSE IF CacheFound(cache, TokenKey(clientType, userID), now)
    THEN "found"
    ELSE "notfound"

(* What an upstream GetHoldings or GetPositions call returns. *)
Outcome(err, list) == [err |-> err, list |-> list]
HoldingOutcomes ==
    {Outcome(TRUE, <<>>)} \cup {Outcome(FALSE, l) : l \in HoldingLists}
PositionOutcomes ==
    {Outcome(TRUE, <<>>)} \cup {Outcome(FALSE, l) : l \in PositionLists}

Done(o, platform, t) ==
    [state |-> "done", err |-> o.err,
     list |-> IF o.err THEN <<>> ELSE Stamp(o.list, platform, t)]

StartCall(op, userID, force, holdingType, stage) ==
    [op |-> op, userID |-> userID, force |-> force,
     holdingType |-> holdingType, stage |-> stage, allHoldings |-> <<>>,
     slots |-> NoSlots, calls |-> NoCalls, ctxDone |-> FALSE]

(* GetPortfolio that keeps the totals of all the holdings of the user on  *)
(* a filtered read.                                                         *)
UserGetPortfolio_TotalsOfAll(userID, forceRefresh, holdingType, readOk) ==
    /\ pcall = NoPCall
    /\ IF forceRefresh
       THEN /\ pcall' = StartCall("GetPortfolio", userID, TRUE, holdingType,
                                  "refresh")
            /\ pret' = NoPRet
       ELSE /\ pcall' = pcall
            /\ pret' =
                IF ~readOk
                THEN PRet("GetPortfolio", userID, FALSE, holdingType,
                          "failed to read holdings", FALSE, FALSE,
                          NoPortfolio, NoSlots, NoCalls)
                ELSE PRet("GetPortfolio", userID, FALSE, holdingType, "",
                          FALSE, FALSE,
                          [MakePortfolio(holdingsDb[userID], now) EXCEPT
                              !.Holdings = OfType(holdingsDb[userID], holdingType)],
                          NoSlots, NoCalls)
    /\ UNCHANGED <<mvars, holdingsDb, snapshotAt, lastRefreshTime, clients, fvars, ovars>>

(* UserService.GetPortfolio.  Without forceRefresh it reads the holdings   *)
(* of the user (GetHoldingsByType for a type filter) and totals them; with *)
(* forceRefresh it runs RefreshPortfolio first.                             *)
UserGetPortfolio(userID, forceRefresh, holdingType, readOk) ==
    /\ pcall = NoPCall
    /\ IF forceRefresh
       THEN /\ pcall' = StartCall("GetPortfolio", userID, TRUE, holdingType,
                                  "refresh")
            /\ pret' = NoPRet
       ELSE /\ pcall' = pcall
            /\ pret' =
                IF ~readOk
                THEN PRet("GetPortfolio", userID, FALSE, holdingType,
                          "failed to read holdings", FALSE, FALSE,
                          NoPortfolio, NoSlots, NoCalls)
                ELSE PRet("GetPortfolio", userID, FALSE, holdingType, "",
                          FALSE, FALSE,
                          MakePortfolio(OfType(holdingsDb[userID], holdingType), now),
                          NoSlots, NoCalls)
    /\ UNCHANGED <<mvars, holdingsDb, snapshotAt, lastRefreshTime, clients, fvars, ovars>>

(* UserService.RefreshPortfolio called on its own. *)
UserRefreshPortfolio(userID) ==
    /\ pcall = NoPCall
    /\ pcall' = StartCall("RefreshPortfolio", userID, FALSE, "", "refresh")
    /\ pret' = NoPRet
    /\ UNCHANGED <<mvars, holdingsDb, snapshotAt, lastRefreshTime, clients, fvars, ovars>>

(* A block that gives up the refresh when an upstream call fails. *)
BrokerBlock_FailsOnFetchError(pc, b, h, p) ==
    LET c == ClientOf(pc.userID, b)
        hs == Done(h, PlatformOf(b), now)
        ps == Done(p, PlatformOf(b), now)
        fetched == [pc EXCEPT
                        !.allHoldings = (@ \o hs.list) \o ps.list,
                        !.slots = [@ EXCEPT ![<<b, "holdings">>] = hs,
                                            ![<<b, "positions">>] = ps],
                        !.calls = [@ EXCEPT ![<<b, "holdings">>] = @ + 1,
                                            ![<<b, "positions">>] = @ + 1]]
    IN IF pc.stage # "refresh" THEN pc
       ELSE IF c = "panic" THEN [pc EXCEPT !.stage = "panic"]
       ELSE IF c = "notfound" THEN pc
       ELSE IF h.err \/ p.err THEN [fetched EXCEPT !.stage = "failed"]
       ELSE fetched

(* The block of RefreshPortfolio for one broker, on the local variables   *)
(* of the call: GetClient, and for a client that exists GetHoldings and    *)
(* GetPositions, each result appended to allHoldings unless the call       *)
(* failed.  A nil dereference in GetClient ends the call.                   *)
BrokerBlock(pc, b, h, p) ==
    LET c == ClientOf(pc.userID, b)
        hs == Done(h, PlatformOf(b), now)
        ps == Done(p, PlatformOf(b), now)
        fetched == [pc EXCEPT
                        !.allHoldings = (@ \o hs.list) \o ps.list,
                        !.slots = [@ EXCEPT ![<<b, "holdings">>] = hs,
                                            ![<<b, "positions">>] = ps],
                        !.calls = [@ EXCEPT ![<<b, "holdings">>] = @ + 1,
                                            ![<<b, "positions">>] = @ + 1]]
    IN IF pc.stage # "refresh" THEN pc
       ELSE IF c = "panic" THEN [pc EXCEPT !.stage = "panic"]
       ELSE IF c = "notfound" THEN pc
       ELSE fetched

(* Results are drawn only for the upstream calls that are made. *)
Called(userID, b, h, p) ==
    \/ ClientOf(userID, b) = "found"
    \/ (h = Outcome(TRUE, <<>>) /\ p = Outcome(TRUE, <<>>))

(* RefreshPortfolio from its first GetClient to its return: the block of  *)
(* each broker, mergeHoldings and SaveHoldings; for a GetPortfolio the     *)
(* read that follows the refresh.  The service holds no lock and writes    *)
(* nothing before SaveHoldings.                                             *)
FinishRefresh(h1, p1, h2, p2, saveOk, readOk) ==
    /\ pcall.stage = "refresh"
    /\ Called(pcall.userID, ClientTypeZerodha, h1, p1)
    /\ Called(pcall.userID, ClientTypeICICIDirect, h2, p2)
    /\ (pcall.op = "RefreshPortfolio" \/ ~saveOk) => readOk
    /\ LET u == pcall.userID
           pc == BrokerBlock(BrokerBlock(pcall, ClientTypeZerodha, h1, p1),
                             ClientTypeICICIDirect, h2, p2)
           merged == mergeHoldings(pc.allHoldings, now)
           Return(err, saveFailed, portfolio) ==
               PRet(pc.op, u, pc.force, pc.holdingType, err, TRUE,
                    saveFailed, portfolio, pc.slots, pc.calls)
       IN IF pc.stage = "panic"
          THEN /\ pret' = Return("panic", FALSE, NoPortfolio)
               /\ UNCHANGED <<holdingsDb, snapshotAt>>
          ELSE IF pc.stage = "failed"
          THEN /\ pret' = Return("failed to fetch", FALSE, NoPortfolio)
               /\ UNCHANGED <<holdingsDb, snapshotAt>>
          ELSE IF ~saveOk
          THEN /\ pret' = Return("failed to save holdings", TRUE,
                                 NoPortfolio)
               /\ UNCHANGED <<holdingsDb, snapshotAt>>
          ELSE /\ holdingsDb' = [holdingsDb EXCEPT ![u] = merged]
               /\ snapshotAt' = [snapshotAt EXCEPT ![u] = now]
               /\ pret' =
                    IF pc.op = "RefreshPortfolio"
                    THEN Return("", FALSE, NoPortfolio)
                    ELSE IF ~readOk
                    THEN Return("failed to read holdings", FALSE,
                                NoPortfolio)
                    ELSE Return("", FALSE,
                                MakePortfolio(OfType(merged, pc.holdingType),
                                              now))
    /\ pcall' = NoPCall
    /\ UNCHANGED <<mvars, lastRefreshTime, clients, fvars, ovars>>

(* The context of the refresh in flight is cancelled or passes its         *)
(* deadline.  RefreshPortfolio hands ctx to the clients and never looks at *)
(* it; the clients do not look at it either.                                *)
ContextDone ==
    /\ pcall.stage = "refresh"
    /\ ~pcall.ctxDone
    /\ pcall' = [pcall EXCEPT !.ctxDone = TRUE]
    /\ pret' = NoPRet
    /\ UNCHANGED <<mvars, holdingsDb, snapshotAt, lastRefreshTime, clients, fvars, ovars>>

(* The clock advances between portfolio calls. *)
Advance(d) ==
    /\ pcall = NoPCall
    /\ nTicks < MaxTicks
    /\ nTicks' = nTicks + 1
    /\ now' = now + d
    /\ pret' = NoPRet
    /\ UNCHANGED <<store, cache, call, ret, readers, sweepPc, sweepCreds,
                   sweepIdx, nLogins, tickPending, sweepsRunning,
                   holdingsDb, snapshotAt, pcall, lastRefreshTime, clients, fvars, ovars>>

NextUser ==
    \/ \E u \in Users, f \in BOOLEAN, t \in HoldingTypes, readOk \in BOOLEAN :
            UserGetPortfolio(u, f, t, readOk)
    \/ \E u \in Users : UserRefreshPortfolio(u)
    \/ \E h1 \in HoldingOutcomes, p1 \in PositionOutcomes,
          h2 \in HoldingOutcomes, p2 \in PositionOutcomes,
          saveOk \in BOOLEAN, readOk \in BOOLEAN :
            FinishRefresh(h1, p1, h2, p2, saveOk, readOk)
    \/ ContextDone
    \/ \E d \in TickSteps : Advance(d)

SpecUser == InitUser /\ [][NextUser]_vars

(* ======================= properties of the manager ===================== *)
Key(r) == TokenKey(r.clientType, r.userID)

(* C1: when client.Login fails during CreateClient the call returns an     *)
(* error and leaves the credential store and the token cache as they were. *)
C1_LoginFailurePersistsNothing ==
    [][\A saveOk \in BOOLEAN :
          CreateClientLogin(FALSE, saveOk) =>
              /\ ret'.op = "CreateClient"
              /\ ret'.err # ""
              /\ ~ret'.found
              /\ store' = store
              /\ cache' = cache]_vars

C1_Witness ==
    /\ ret.op = "CreateClient"
    /\ ret.err = "failed to login"
    /\ HasCredentials(store, ret.userID, ret.clientType)
    /\ CacheFound(cache, Key(ret), now)

(* C2: after a CreateClient that logged in and returned no error, the      *)
(* store holds a credential for the pair whose accessToken is the access   *)
(* token obtained from Login, and the cache holds that token under the     *)
(* pair's key.                                                              *)
C2_ConnectPersistsLoginToken ==
    (ret.op = "CreateClient" /\ ret.err = "" /\ ret.token # "") =>
        /\ HasCredentials(store, ret.userID, ret.clientType)
        /\ store[<<ret.userID, ret.clientType>>].AccessToken = ret.token
        /\ CacheGet(cache, Key(ret), now) = ret.token

(* C3: GetClient for a pair without a credential returns not-found as a    *)
(* normal result: no error, no panic, no client.                            *)
C3_GetClientAbsentIsNotFound ==
    (/\ ret.op = "GetClient"
     /\ ret.clientType \in Brokers
     /\ ~HasCredentials(store, ret.userID, ret.clientType)) =>
        (ret.err = "" /\ ~ret.found)

(* C4: GetClient returns a client only with the token that is in the cache *)
(* under the pair's key at that moment, and returns not-found when the     *)
(* credential exists but the key is not in the cache.                       *)
C4_GetClientNeverUnauthenticated ==
    ret.op = "GetClient" =>
        /\ ret.found =>
              /\ CacheFound(cache, Key(ret), now)
              /\ ret.token = cache[Key(ret)].Object
              /\ ret.token # ""
        /\ (/\ HasCredentials(store, ret.userID, ret.clientType)
            /\ Key(ret) \notin DOMAIN cache) =>
              (~ret.found /\ ret.err = "")

C4_Witness ==
    /\ ret.op = "GetClient"
    /\ ret.found
    /\ ret.token = IssuedToken(nLogins)

(* C5: once RemoveClient has returned, the pair has no credential in the   *)
(* store and no token key in the cache, and a GetClient for the pair that  *)
(* follows it returns not-found.                                            *)
C5_DisconnectRemovesSession ==
    /\ [](ret.op = "RemoveClient" =>
            /\ ~HasCredentials(store, ret.userID, ret.clientType)
            /\ Key(ret) \notin DOMAIN cache)
    /\ [][(/\ ret.op = "RemoveClient"
           /\ ret'.op = "GetClient"
           /\ ret'.userID = ret.userID
           /\ ret'.clientType = ret.clientType) =>
              (ret'.err = "" /\ ~ret'.found)]_vars

RefreshStep ==
    \/ sweepPc' # sweepPc
    \/ call'.op = "RefreshTokens"
    \/ call.op = "RefreshTokens"
    \/ ret'.op = "RefreshTokens"

(* C7: no step of the sweep or of RefreshTokens removes a credential, and  *)
(* a refresh whose Login fails leaves the stored token and expiry of every *)
(* credential untouched.                                                    *)
C7_SweepNeverRemovesCredential ==
    [][RefreshStep =>
          /\ DOMAIN store' = DOMAIN store
          /\ (ret'.op = "RefreshTokens" /\ ret'.err # "") =>
                \A p \in DOMAIN store :
                    /\ store'[p].AccessToken = store[p].AccessToken
                    /\ store'[p].TokenExpiry = store[p].TokenExpiry]_vars

C7_Witness ==
    /\ ret.op = "RefreshTokens"
    /\ ret.err = "failed to login"
    /\ HasCredentials(store, ret.userID, ret.clientType)

(* A credential is due for refresh when the token Connect cached for it is *)
(* missing or its expiry is within the refresh threshold of now or past.   *)
RefreshDue(cred) ==
    \/ ~CacheFound(cache, TokenKey(cred.BrokerType, cred.UserID), now)
    \/ now > cred.TokenExpiry - RefreshThreshold

(* C8: the sweep passes over a credential without calling RefreshTokens    *)
(* for it only if the credential is not due for refresh.                    *)
C8_SweepRefreshesDueCredentials ==
    [][(/\ sweepPc = "loop"
        /\ sweepIdx <= Len(sweepCreds)
        /\ sweepIdx' = sweepIdx + 1) =>
            ~RefreshDue(sweepCreds[sweepIdx])]_vars

(* C9: after a refresh whose Login succeeded, the stored accessToken and   *)
(* tokenExpiry and the cached token of the pair carry the new token and    *)
(* expiry.                                                                  *)
C9_RefreshUpdatesStoreAndCache ==
    (ret.op = "RefreshTokens" /\ ret.err = "" /\ ret.found) =>
        /\ HasCredentials(store, ret.userID, ret.clientType)
        /\ store[<<ret.userID, ret.clientType>>].AccessToken = ret.token
        /\ store[<<ret.userID, ret.clientType>>].TokenExpiry = now + MaxAge
        /\ CacheGet(cache, Key(ret), now) = ret.token

C11_SingleSweepInProgress == sweepsRunning <= 1

(* A tick has arrived while a sweep was running and waits in ticker.C. *)
C11_Witness ==
    /\ sweepsRunning = 1
    /\ sweepPc # "idle"
    /\ tickPending

(* C12: while a CreateClient or a RefreshTokens of one user is in flight,  *)
(* upstream Login included, GetClient of every other user can take its    *)
(* step.                                                                    *)
C12_ReadOfOtherUserNotBlocked ==
    call # NoCall =>
        \A u \in Users \ {call.userID}, t \in Brokers :
            ENABLED GetClient(u, t, TRUE)

(* C29: the sweep leaves the loop over the credentials only after the     *)
(* last of them: a credential whose refresh is due or fails does not keep  *)
(* the sweep from the credentials after it, nor from the next sweep.        *)
C29_SweepProcessesEveryCredential ==
    [][(sweepPc = "loop" /\ sweepPc' # "loop") =>
          sweepIdx > Len(sweepCreds)]_vars

(* The life of the token a broker issues, as its client's Login sets it. *)
TokenLife(clientType) ==
    IF clientType = ClientTypeZerodha THEN ZerodhaTokenLife ELSE ICICITokenLife

(* C31: a successful Connect stores the credential with an expiry that is  *)
(* the broker's own token life after the login (24 hours for Zerodha, 12   *)
(* hours for ICICI Direct) and caches the token with the same time to live. *)
C31_BrokerSpecificExpiry ==
    (ret.op = "CreateClient" /\ ret.err = "" /\ ret.token # "") =>
        /\ store[<<ret.userID, ret.clientType>>].TokenExpiry
              = now + TokenLife(ret.clientType)
        /\ cache[TokenKey(ret.clientType, ret.userID)].Expiration
              = now + TokenLife(ret.clientType)

(* C36: a sweep never waits for the write lock while it holds the read     *)
(* lock itself, and when the worker is back waiting for a tick, no read    *)
(* lock of the sweep is left held.                                          *)
C36_SweepTerminatesLockFree ==
    /\ sweepPc # "blocked"
    /\ sweepPc = "idle" => readers = 0

(* C37: a token that is cached for a pair is the accessToken of the        *)
(* credential the store holds for that pair.                                *)
C37_CacheAgreesWithStore ==
    \A u \in Users, b \in Brokers :
        CacheFound(cache, TokenKey(b, u), now) =>
            /\ HasCredentials(store, u, b)
            /\ store[<<u, b>>].AccessToken = CacheGet(cache, TokenKey(b, u), now)

(* C38: the sweep does not call RefreshTokens for a credential whose token *)
(* is in the cache under the key CreateClient wrote and has not expired.   *)
C38_SweepFindsConnectToken ==
    [][(/\ sweepPc = "loop"
        /\ sweepIdx <= Len(sweepCreds)
        /\ CacheFound(cache, TokenKey(sweepCreds[sweepIdx].BrokerType,
                                      sweepCreds[sweepIdx].UserID), now)) =>
            sweepPc' # "blocked"]_vars

(* C39: a client that GetClient returns carries the token cached for the   *)
(* pair, and the time to live of that token has not elapsed.                *)
C39_NoExpiredTokenHandedOut ==
    (ret.op = "GetClient" /\ ret.found) =>
        LET key == TokenKey(ret.clientType, ret.userID)
        IN /\ key \in DOMAIN cache
           /\ now <= cache[key].Expiration
           /\ ret.token = cache[key].Object

(* GetClient answered not-found for a pair whose expired token is still in *)
(* the cache: DeleteExpired has not run yet.                                *)
C39_Witness ==
    /\ ret.op = "GetClient"
    /\ ~ret.found
    /\ ret.err = ""
    /\ HasCredentials(store, ret.userID, ret.clientType)
    /\ TokenKey(ret.clientType, ret.userID) \in DOMAIN cache
    /\ now > cache[TokenKey(ret.clientType, ret.userID)].Expiration

(* ================= properties of the user portfolio service ============ *)
Kinds == {"holdings", "positions"}

(* GetClient finds a client for the pair. *)
Connected(userID, broker) == ClientOf(userID, broker) = "found"

(* Everything the upstream calls of a refresh returned, in call order. *)
RECURSIVE Fetched(_, _)
Fetched(sl, order) ==
    IF order = <<>> THEN <<>>
    ELSE sl[Head(order)].list \o Fetched(sl, Tail(order))

(* C13: a Portfolio returned by GetPortfolio, filtered or not, has         *)
(* totalValue, totalDayChange and totalPnL equal to the sums over the      *)
(* holdings it carries.                                                     *)
C13_TotalsAreSumsOfHoldings ==
    (pret.op = "GetPortfolio" /\ pret.err = "") =>
        /\ pret.portfolio.TotalValue =
              SumCurrentValue(pret.portfolio.Holdings)
        /\ pret.portfolio.TotalDayChange =
              SumDayChange(pret.portfolio.Holdings)
        /\ pret.portfolio.TotalPnL = SumTotalPnL(pret.portfolio.Holdings)

(* A filtered read has returned fewer holdings than the user has. *)
C13_Witness ==
    /\ pret.op = "GetPortfolio"
    /\ pret.err = ""
    /\ pret.holdingType = HoldingTypeStock
    /\ pret.portfolio.Holdings # <<>>
    /\ Len(pret.portfolio.Holdings) < Len(holdingsDb[pret.userID])

(* C15: a GetPortfolio without forceRefresh that finds no snapshot of the  *)
(* user, or one older than the TTL, runs RefreshPortfolio before it reads. *)
C15_StaleSnapshotIsRefreshed ==
    (pret.op = "GetPortfolio" /\ ~pret.force) =>
        \/ pret.refreshed
        \/ /\ snapshotAt[pret.userID] >= 0
           /\ now - snapshotAt[pret.userID] <= CacheTTL

(* C16: a GetPortfolio with forceRefresh has made exactly one GetHoldings  *)
(* and one GetPositions call to every broker for which GetClient finds a   *)
(* client of the user, and none to the other brokers.                       *)
C16_ForcedRefreshCallsConnectedBrokersOnce ==
    (pret.op = "GetPortfolio" /\ pret.force) =>
        \A b \in Brokers, k \in Kinds :
            pret.calls[<<b, k>>] =
                IF Connected(pret.userID, b) THEN 1 ELSE 0

C18_ErrorIffSaveFails ==
    pret.op = "RefreshPortfolio" => ((pret.err # "") = pret.saveFailed)

(* C28: the lastUpdated of a Portfolio that GetPortfolio returns is the    *)
(* time at which the snapshot of the user was last refreshed.               *)
C28_LastUpdatedIsRefreshTime ==
    (/\ pret.op = "GetPortfolio"
     /\ pret.err = ""
     /\ snapshotAt[pret.userID] >= 0) =>
        pret.portfolio.LastUpdated = snapshotAt[pret.userID]

(* C30: once the context of a refresh is done, the call writes no snapshot *)
(* that holds a broker result which arrived after that: it leaves the      *)
(* snapshot of the user as it was or writes the empty one.                  *)
C30_NoLateResultInSnapshot ==
    [][(pcall.stage = "refresh" /\ pcall.ctxDone) =>
          holdingsDb'[pcall.userID] \in {holdingsDb[pcall.userID], <<>>}]_vars

(* =================== the single-portfolio service ====================== *)
(* Service (GetPortfolio and RefreshPortfolio without a user) over the     *)
(* two broker clients it was configured with and one cache entry.  The     *)
(* caller is the user on whose request the handler runs; the service never *)
(* sees it.  RefreshPortfolio holds the mutex of the service from its      *)
(* start to its return, so one call is in flight at a time.                 *)
KeyPortfolio == "portfolio"

(* The clock moves by the TTL or by one hour more than the TTL. *)
TTLSteps == {CacheTTL, CacheTTL + 1}

(* ServiceConfig: the Zerodha client is set, the ICICI client may be nil. *)
ClientSetups == {c \in [Brokers -> BOOLEAN] : c[ClientTypeZerodha]}

InitService ==
    /\ now = 0
    /\ store = <<>>
    /\ cache = <<>>
    /\ call = NoCall
    /\ ret = NoRet
    /\ readers = 0
    /\ sweepPc = "idle"
    /\ sweepCreds = <<>>
    /\ sweepIdx = 0
    /\ nTicks = 0
    /\ nLogins = 0
    /\ tickPending = FALSE
    /\ sweepsRunning = 0
    /\ holdingsDb = [u \in Users |-> <<>>]
    /\ snapshotAt = [u \in Users |-> -1]
    /\ pcall = NoPCall
    /\ pret = NoPRet
    /\ lastRefreshTime = 0
    /\ clients \in ClientSetups
    /\ MergeInit
    /\ OtherInit

(* A filter that keeps the totals of the whole snapshot. *)
FilterPortfolio_TotalsOfAll(p, holdingType) ==
    [p EXCEPT !.Holdings = OfType(p.Holdings, holdingType)]

(* The filtered copy GetPortfolio builds for a holding type. *)
FilterPortfolio(p, holdingType) ==
    IF holdingType \in {"", "all"} THEN p
    ELSE MakePortfolio(OfType(p.Holdings, holdingType), p.LastUpdated)

(* The part of GetPortfolio after the refresh: Cache.GetPortfolio and the  *)
(* filter.                                                                  *)
ReadPortfolio(c, t, holdingType) ==
    IF ~CacheFound(c, KeyPortfolio, t)
    THEN [err |-> "portfolio not found in cache", portfolio |-> NoPortfolio]
    ELSE [err |-> "",
          portfolio |-> FilterPortfolio(c[KeyPortfolio].Object, holdingType)]

(* RefreshPortfolio has started its four goroutines. *)
RunningSlot == [state |-> "running", err |-> FALSE, list |-> <<>>]
FanOut(op, caller, force, holdingType) ==
    [StartCall(op, caller, force, holdingType, "fanout") EXCEPT
        !.slots = [f \in Fetches |-> RunningSlot]]

(* GetPortfolio that refreshes on every call. *)
GetPortfolio_AlwaysRefreshes(caller, forceRefresh, holdingType) ==
    /\ pcall = NoPCall
    /\ pcall' = FanOut("GetPortfolio", caller, forceRefresh, holdingType)
    /\ pret' = NoPRet
    /\ UNCHANGED <<mvars, holdingsDb, snapshotAt, lastRefreshTime, clients, fvars, ovars>>

(* Service.GetPortfolio: it refreshes when forced or when more than the    *)
(* TTL has passed since lastRefreshTime, and otherwise reads the cache.    *)
GetPortfolio(caller, forceRefresh, holdingType) ==
    /\ pcall = NoPCall
    /\ LET needsRefresh ==
               forceRefresh \/ now - lastRefreshTime > CacheTTL
           r == ReadPortfolio(cache, now, holdingType)
       IN IF needsRefresh
          THEN /\ pcall' = FanOut("GetPortfolio", caller, forceRefresh,
                                  holdingType)
               /\ pret' = NoPRet
          ELSE /\ pcall' = pcall
               /\ pret' = PRet("GetPortfolio", caller, FALSE, holdingType,
                               r.err, FALSE, FALSE, r.portfolio,
                               NoSlots, NoCalls)
    /\ UNCHANGED <<mvars, holdingsDb, snapshotAt, lastRefreshTime, clients, fvars, ovars>>

(* Service.RefreshPortfolio called on its own. *)
RefreshPortfolio(caller) ==
    /\ pcall = NoPCall
    /\ pcall' = FanOut("RefreshPortfolio", caller, FALSE, "")
    /\ pret' = NoPRet
    /\ UNCHANGED <<mvars, holdingsDb, snapshotAt, lastRefreshTime, clients, fvars, ovars>>

(* One of the four fetch goroutines returns: with the empty list and no    *)
(* upstream call when the client is nil (no result is drawn then), with    *)
(* what the client returned otherwise.                                      *)
fetch(b, k, o) ==
    /\ pcall.stage = "fanout"
    /\ pcall.slots[<<b, k>>].state = "running"
    /\ o \in (IF k = "holdings" THEN HoldingOutcomes ELSE PositionOutcomes)
    /\ ~clients[b] => o = Outcome(TRUE, <<>>)
    /\ pcall' =
         [pcall EXCEPT
            !.slots[<<b, k>>] =
                IF clients[b] THEN Done(o, PlatformOf(b), now)
                ELSE [state |-> "done", err |-> FALSE, list |-> <<>>],
            !.calls[<<b, k>>] = IF clients[b] THEN @ + 1 ELSE @]
    /\ pret' = NoPRet
    /\ UNCHANGED <<mvars, holdingsDb, snapshotAt, lastRefreshTime, clients, fvars, ovars>>

AllReturned(sl) == \A f \in Fetches : sl[f].state = "done"

(* The rest of RefreshPortfolio, and of the GetPortfolio that called it,   *)
(* taken without waiting for the goroutines.                                *)
Join_NoWait ==
    /\ pcall.stage = "fanout"
    /\ LET allHoldings ==
               ServiceMergeHoldings(Fetched(pcall.slots, FetchOrder))
           portfolio == MakePortfolio(allHoldings, now)
       IN /\ cache' = CacheSet(cache, KeyPortfolio, portfolio, CacheTTL, now)
          /\ pret' = PRet(pcall.op, pcall.userID, pcall.force,
                          pcall.holdingType, "", TRUE, FALSE,
                          IF pcall.op = "RefreshPortfolio" THEN NoPortfolio
                          ELSE FilterPortfolio(portfolio, pcall.holdingType),
                          pcall.slots, pcall.calls)
    /\ lastRefreshTime' = now
    /\ pcall' = NoPCall
    /\ UNCHANGED <<now, store, call, ret, readers, sweepPc, sweepCreds,
                   sweepIdx, nTicks, nLogins, tickPending, sweepsRunning,
                   holdingsDb, snapshotAt, clients, fvars, ovars>>

(* The rest of RefreshPortfolio after wg.Wait(): the merge of the four     *)
(* lists, the totals, SetPortfolio and the deferred lastRefreshTime; for a *)
(* GetPortfolio the read of the cache and the filter that follow.          *)
Join ==
    /\ pcall.stage = "fanout"
    /\ AllReturned(pcall.slots)
    /\ LET allHoldings ==
               ServiceMergeHoldings(Fetched(pcall.slots, FetchOrder))
           portfolio == MakePortfolio(allHoldings, now)
       IN /\ cache' = CacheSet(cache, KeyPortfolio, portfolio, CacheTTL, now)
          /\ pret' = PRet(pcall.op, pcall.userID, pcall.force,
                          pcall.holdingType, "", TRUE, FALSE,
                          IF pcall.op = "RefreshPortfolio" THEN NoPortfolio
                          ELSE FilterPortfolio(portfolio, pcall.holdingType),
                          pcall.slots, pcall.calls)
    /\ lastRefreshTime' = now
    /\ pcall' = NoPCall
    /\ UNCHANGED <<now, store, call, ret, readers, sweepPc, sweepCreds,
                   sweepIdx, nTicks, nLogins, tickPending, sweepsRunning,
                   holdingsDb, snapshotAt, clients, fvars, ovars>>

NextService ==
    \/ \E u \in Users, f \in BOOLEAN, t \in HoldingTypes :
            GetPortfolio(u, f, t)
    \/ \E u \in Users : RefreshPortfolio(u)
    \/ \E b \in Brokers, k \in Kinds, o \in HoldingOutcomes \cup PositionOutcomes :
            fetch(b, k, o)
    \/ Join
    \/ \E d \in TTLSteps : Advance(d)

SpecService == InitService /\ [][NextService]_vars

C19_MergeAfterEveryFetchReturned ==
    [][cache' # cache =>
         /\ AllReturned(pcall.slots)
         /\ cache'[KeyPortfolio].Object.Holdings =
                ServiceMergeHoldings(Fetched(pcall.slots, FetchOrder))
         /\ pret'.slots = pcall.slots]_vars

(* A refresh over two clients whose four calls all succeeded has stored    *)
(* the merge.                                                               *)
C19_Witness ==
    /\ pret.op = "RefreshPortfolio"
    /\ pret.refreshed
    /\ \A f \in Fetches : pret.slots[f].state = "done" /\ ~pret.slots[f].err
    /\ \A f \in Fetches : pret.calls[f] = 1
    /\ CacheFound(cache, KeyPortfolio, now)
    /\ Len(cache[KeyPortfolio].Object.Holdings) >= 3

(* C20: a step of a call made for one user leaves what GetPortfolio        *)
(* returns to every other user as it was.                                   *)
C20_RefreshLeavesOtherUsersPortfolio ==
    [][\A b \in Users :
          (pcall.op # "none" /\ pcall.userID # b) =>
              ReadPortfolio(cache', now', "") = ReadPortfolio(cache, now, "")]_vars

(* C26: a GetPortfolio with a type filter returns the holdings of that     *)
(* type of the stored snapshot, all of them and in their order, with       *)
(* totalValue, totalDayChange and totalPnL summed over them, and a read    *)
(* that did not refresh leaves the stored snapshot as it was.               *)
C26_FilteredReadIsSubsetOfSnapshot ==
    [][(/\ pret'.op = "GetPortfolio"
        /\ pret'.err = ""
        /\ pret'.holdingType \notin {"", "all"}) =>
            LET snapshot == cache'[KeyPortfolio].Object
                returned == pret'.portfolio
            IN /\ returned.Holdings =
                      SelectSeq(snapshot.Holdings,
                                LAMBDA h : h.Type = pret'.holdingType)
               /\ returned.TotalValue = SumCurrentValue(returned.Holdings)
               /\ returned.TotalDayChange = SumDayChange(returned.Holdings)
               /\ returned.TotalPnL = SumTotalPnL(returned.Holdings)
               /\ ~pret'.refreshed => cache' = cache]_vars

(* A read filtered to stocks has left a fund of the snapshot out. *)
C26_Witness ==
    /\ pret.op = "GetPortfolio"
    /\ pret.err = ""
    /\ pret.holdingType = HoldingTypeStock
    /\ ~pret.refreshed
    /\ pret.portfolio.Holdings # <<>>
    /\ Len(pret.portfolio.Holdings) < Len(cache[KeyPortfolio].Object.Holdings)

(* C27: the totalDayChangePct of a returned Portfolio is the sum of        *)
(* dayChange over the sum of currentValue of its holdings, times 100,      *)
(* whenever that sum of currentValue is not 0, and 0 when it is 0.          *)
C27_TotalPercentOverNonZeroValue ==
    (pret.op = "GetPortfolio" /\ pret.err = "") =>
        LET v == SumCurrentValue(pret.portfolio.Holdings)
            d == SumDayChange(pret.portfolio.Holdings)
        IN pret.portfolio.TotalDayChangePct =
               IF v = 0 THEN 0 ELSE Percent(d, v)

(* ========================= the holding merger ========================== *)
(* The two mergeHoldings functions, applied to lists of holdings as the    *)
(* broker clients hand them over: platform and lastUpdated are set.  The   *)
(* single-portfolio service passes its lists one after the other, which is *)
(* their concatenation.                                                     *)
MaxLen == 3

(* What the merge is applied to: a security held at Zerodha and, under    *)
(* another name, at ICICI Direct; another security; three positions in the *)
(* first security at Zerodha, which come without ISIN (bought today, sold  *)
(* short, and closed within the day: no quantity, no value, a realised day *)
(* change); and a fund without ISIN at either broker.                       *)
HeldINFY == [INFY EXCEPT !.Platform = PlatformZerodha]
OtherINFY ==
    Holding("Infosys", "INE009A01021", 15, 1050, 17250, 0, 0, 750,
            PlatformICICIDirect, HoldingTypeStock, 1)
HeldTCS == [TCS EXCEPT !.Platform = PlatformICICIDirect, !.LastUpdated = 1]
BoughtINFY ==
    Holding("INFY", "", 5, 1100, 5500, 0, 0, 0,
            PlatformZerodha, HoldingTypeStock, 1)
ShortINFY ==
    Holding("INFY", "", -15, 1100, -16500, 50, 0, 50,
            PlatformZerodha, HoldingTypeStock, 1)
ClosedINFY ==
    Holding("INFY", "", 0, 0, 0, 5500, 0, 5500,
            PlatformZerodha, HoldingTypeStock, 1)
FundAtZerodha == [FUND EXCEPT !.Platform = PlatformZerodha]
FundAtICICI == [FUND EXCEPT !.Platform = PlatformICICIDirect, !.LastUpdated = 1]

Candidates == {HeldINFY, BoughtINFY, OtherINFY, ShortINFY, ClosedINFY,
               HeldTCS, FundAtZerodha, FundAtICICI}

MergeInputs == UNION {[1..n -> Candidates] : n \in 0..MaxLen}

(* The merge runs at hour 2, after every lastUpdated of its input. *)
InitMerge ==
    /\ now = 2
    /\ store = <<>>
    /\ cache = <<>>
    /\ call = NoCall
    /\ ret = NoRet
    /\ readers = 0
    /\ sweepPc = "idle"
    /\ sweepCreds = <<>>
    /\ sweepIdx = 0
    /\ nTicks = 0
    /\ nLogins = 0
    /\ tickPending = FALSE
    /\ sweepsRunning = 0
    /\ PortfolioInit
    /\ mergeInput \in MergeInputs
    /\ mergeOutput = NoMerge
    /\ OtherInit

(* mergeHoldings of the user service applied to the list. *)
ApplyMergeHoldings ==
    /\ mergeOutput = NoMerge
    /\ mergeOutput' = [fn |-> "mergeHoldings",
                       out |-> mergeHoldings(mergeInput, now)]
    /\ UNCHANGED <<mvars, pvars, mergeInput, ovars>>

(* mergeHoldings of the single-portfolio service applied to the list. *)
ApplyServiceMergeHoldings ==
    /\ mergeOutput = NoMerge
    /\ mergeOutput' = [fn |-> "ServiceMergeHoldings",
                       out |-> ServiceMergeHoldings(mergeInput)]
    /\ UNCHANGED <<mvars, pvars, mergeInput, ovars>>

NextMerge ==
    \/ ApplyMergeHoldings
    \/ ApplyServiceMergeHoldings

SpecMerge == InitMerge /\ [][NextMerge]_vars

(* ===================== properties of the merger ======================== *)
(* The identity key of a holding: the ISIN, or platform and name when the  *)
(* ISIN is empty.                                                           *)
IdentityKey(h) == IF h.ISIN # "" THEN h.ISIN ELSE h.Platform \o h.ItemName

KeysOf(hs) == {IdentityKey(hs[i]) : i \in 1..Len(hs)}
Group(hs, key) == SelectSeq(hs, LAMBDA h : IdentityKey(h) = key)
Range(hs) == {hs[i] : i \in 1..Len(hs)}
Merged == mergeOutput.fn # "none"

(* C21: when the holdings of the input have pairwise distinct identity     *)
(* keys, either merge returns as many holdings as the input has, and they  *)
(* are the holdings of the input, unchanged.                                *)
C21_DistinctKeysPassThrough ==
    (Merged /\ Cardinality(KeysOf(mergeInput)) = Len(mergeInput)) =>
        /\ Len(mergeOutput.out) = Len(mergeInput)
        /\ Range(mergeOutput.out) = Range(mergeInput)

(* Three holdings with three keys, two of them without ISIN, were merged   *)
(* by the user service's function.                                          *)
C21_Witness ==
    /\ mergeOutput.fn = "mergeHoldings"
    /\ mergeInput = <<HeldINFY, FundAtZerodha, FundAtICICI>>
    /\ Len(mergeOutput.out) = 3

(* The holding of the result that stands for the key. *)
OutOf(key) == CHOOSE h \in Range(mergeOutput.out) : IdentityKey(h) = key

(* The keys under which the input has several holdings. *)
MultiKeys == {k \in KeysOf(mergeInput) : Len(Group(mergeInput, k)) > 1}

SamePlatform(g) == \A i \in 1..Len(g) : g[i].Platform = g[1].Platform

(* C22: for every group of several holdings of one platform with one key,  *)
(* the user service's merge yields a holding that carries the sums of      *)
(* quantity, currentValue, dayChange and totalPnL of the group, with       *)
(* averagePrice = currentValue / quantity, or 0 when the quantity is 0.    *)
C22_SamePlatformGroupIsSummed ==
    mergeOutput.fn = "mergeHoldings" =>
        \A k \in MultiKeys :
            LET g == Group(mergeInput, k)
                q == SumQuantity(g)
                v == SumCurrentValue(g)
            IN SamePlatform(g) =>
                /\ \E h \in Range(mergeOutput.out) : IdentityKey(h) = k
                /\ OutOf(k).Quantity = q
                /\ OutOf(k).CurrentValue = v
                /\ OutOf(k).DayChange = SumDayChange(g)
                /\ OutOf(k).TotalPnL = SumTotalPnL(g)
                /\ OutOf(k).AveragePrice =
                       IF q = 0 THEN 0 ELSE Quotient(v, q)

(* C23: of two holdings with one ISIN and different platforms the user     *)
(* service's merge yields one holding, equal to the one of the two that    *)
(* was updated last.                                                        *)
C23_CrossPlatformKeepsNewest ==
    (/\ mergeOutput.fn = "mergeHoldings"
     /\ Len(mergeInput) = 2
     /\ mergeInput[1].ISIN # ""
     /\ mergeInput[1].ISIN = mergeInput[2].ISIN
     /\ mergeInput[1].Platform # mergeInput[2].Platform) =>
        /\ Len(mergeOutput.out) = 1
        /\ \E i \in 1..2 :
              /\ mergeOutput.out[1] = mergeInput[i]
              /\ \A j \in 1..2 :
                    mergeInput[j].LastUpdated <= mergeInput[i].LastUpdated

(* C24: in a holding the user service's merge accumulated from several,    *)
(* dayChangePercent is dayChange / (currentValue - dayChange) * 100, or 0  *)
(* when that denominator is 0, and neither it nor averagePrice is the      *)
(* result of a division by zero.                                            *)
C24_AccumulatedPercentIsFinite ==
    mergeOutput.fn = "mergeHoldings" =>
        \A k \in MultiKeys :
            LET g == Group(mergeInput, k)
                v == SumCurrentValue(g)
                d == SumDayChange(g)
            IN /\ OutOf(k).DayChangePercent =
                      IF v - d = 0 THEN 0 ELSE Percent(d, v - d)
               /\ OutOf(k).DayChangePercent \notin {PosInf, NegInf, NaN}
               /\ OutOf(k).AveragePrice \notin {PosInf, NegInf, NaN}

(* C25: in the result of either merge no two holdings share an identity    *)
(* key, and the keys of the result are the keys of the input.               *)
C25_ResultIsDeduplicated ==
    Merged =>
        /\ Cardinality(KeysOf(mergeOutput.out)) = Len(mergeOutput.out)
        /\ KeysOf(mergeOutput.out) = KeysOf(mergeInput)

(* A list with one key twice and another key once was merged. *)
C25_Witness ==
    /\ mergeOutput.fn = "mergeHoldings"
    /\ mergeInput = <<HeldINFY, OtherINFY, HeldTCS>>
    /\ Len(mergeOutput.out) = 2

(* ============================ the database ============================= *)
(* BrokerCredentialsRepo over the broker_credentials table and             *)
(* PortfolioRepo.SaveHoldings over portfolio_holdings.  SaveCredentials is *)
(* two statements (a SELECT of the row, then an INSERT or an UPDATE) that  *)
(* calls on different connections interleave; SaveHoldings is one          *)
(* transaction, whose statements no other connection sees before the       *)
(* commit.                                                                  *)
MaxSaves == 3

ApiKeys == {ApiKey, "k2"}

CredRow(id, userID, brokerType, apiKey, apiSecret) ==
    [ID |-> id, UserID |-> userID, BrokerType |-> brokerType,
     APIKey |-> apiKey, APISecret |-> apiSecret]

(* WHERE user_id = $1 AND broker_type = $2 *)
RowsOf(rows, userID, brokerType) ==
    {r \in rows : r.UserID = userID /\ r.BrokerType = brokerType}

(* A table without the constraint. *)
UniqueViolation_NoConstraint(rows, userID, brokerType) == FALSE

(* UNIQUE (user_id, broker_type): an INSERT of a pair the table holds      *)
(* fails.                                                                   *)
UniqueViolation(rows, userID, brokerType) ==
    RowsOf(rows, userID, brokerType) # {}

(* The tables when the calls start: both users have holdings. *)
InitDatabase ==
    /\ now = 1
    /\ store = <<>>
    /\ cache = <<>>
    /\ call = NoCall
    /\ ret = NoDbRet
    /\ readers = 0
    /\ sweepPc = "idle"
    /\ sweepCreds = <<>>
    /\ sweepIdx = 0
    /\ nTicks = 0
    /\ nLogins = 0
    /\ tickPending = FALSE
    /\ sweepsRunning = 0
    /\ holdingsDb = [u \in Users |->
            IF u = "u1" THEN Stamp(<<INFY, FUND>>, PlatformZerodha, 0)
            ELSE Stamp(<<TCS>>, PlatformICICIDirect, 0)]
    /\ snapshotAt = [u \in Users |-> 0]
    /\ pcall = NoPCall
    /\ pret = NoPRet
    /\ lastRefreshTime = 0
    /\ clients = [b \in Brokers |-> FALSE]
    /\ MergeInit
    /\ OtherInit

(* SaveCredentials up to the result of its SELECT. *)
SaveCredentialsSelect(c, userID, brokerType, apiKey, selectOk) ==
    /\ saveCalls[c].pc = "idle"
    /\ nCalls < MaxSaves
    /\ nCalls' = nCalls + 1
    /\ IF ~selectOk
       THEN /\ ret' = DbRet("SaveCredentials", c, userID, "select failed", 0)
            /\ saveCalls' = saveCalls
       ELSE /\ ret' = NoDbRet
            /\ saveCalls' = [saveCalls EXCEPT ![c] =
                    [pc |-> "selected", n |-> nCalls', userID |-> userID,
                     brokerType |-> brokerType, apiKey |-> apiKey,
                     found |-> RowsOf(credRows, userID, brokerType) # {}]]
    /\ UNCHANGED <<credRows, now, lvars, pvars, fvars, avars, nvars>>

(* The rest of SaveCredentials: the INSERT when the SELECT found no row,   *)
(* the UPDATE when it found one.  The id of an inserted row is the number  *)
(* of the call, as the sequence of the table gives every INSERT its own.   *)
SaveCredentialsExec(c) ==
    LET s == saveCalls[c]
    IN /\ s.pc = "selected"
       /\ saveCalls' = [saveCalls EXCEPT ![c] = NoSave]
       /\ IF ~s.found
          THEN IF UniqueViolation(credRows, s.userID, s.brokerType)
               THEN /\ credRows' = credRows
                    /\ ret' = DbRet("SaveCredentials", c, s.userID,
                                    "unique violation", 0)
               ELSE /\ credRows' = credRows \cup
                         {CredRow(s.n, s.userID, s.brokerType,
                                  s.apiKey, ApiSecret)}
                    /\ ret' = DbRet("SaveCredentials", c, s.userID, "", 0)
          ELSE /\ credRows' =
                    {IF r \in RowsOf(credRows, s.userID, s.brokerType)
                     THEN [r EXCEPT !.APIKey = s.apiKey,
                                    !.APISecret = ApiSecret]
                     ELSE r : r \in credRows}
               /\ ret' = DbRet("SaveCredentials", c, s.userID, "", 0)
       /\ UNCHANGED <<nCalls, now, lvars, pvars, fvars, avars, nvars>>

(* DeleteCredentials of the repository: one DELETE. *)
DeleteCredentialsExec(c, userID, brokerType) ==
    /\ saveCalls[c].pc = "idle"
    /\ credRows' = credRows \ RowsOf(credRows, userID, brokerType)
    /\ ret' = DbRet("DeleteCredentials", c, userID, "", 0)
    /\ UNCHANGED <<saveCalls, nCalls, now, lvars, pvars, fvars, avars, nvars>>

(* The lists RefreshPortfolio hands to SaveHoldings. *)
ListsToSave == {<<>>, Stamp(<<TCS>>, PlatformZerodha, 1),
                Stamp(<<TCS, FUND>>, PlatformZerodha, 1)}

(* What a transaction sees after its statements up to the k-th: the        *)
(* DELETE of the rows of the user is the first, the INSERT of the i-th     *)
(* holding the one after the i-th.                                          *)
TxView(table, userID, holdings, k) ==
    IF k = 0 THEN table
    ELSE [table EXCEPT ![userID] = SubSeq(holdings, 1, k - 1)]

FailPoints(holdings) == 0..(Len(holdings) + 3)

(* A rollback that leaves the statements of the transaction in the table. *)
Rollback_KeepsStatements(table, view) == view

(* tx.Rollback(): the table is what it was at Begin. *)
Rollback(table, view) == table

(* SaveHoldings with the step at which it fails: 0 for Begin, 1 for the    *)
(* DELETE, 1 + i for the i-th INSERT, Len + 2 for Commit, more for none.   *)
(* An Exec that fails sets err, so the deferred function rolls back; a     *)
(* Commit that fails has committed nothing.                                 *)
SaveHoldings(c, userID, holdings, failAt) ==
    /\ saveCalls[c].pc = "idle"
    /\ nCalls < MaxSaves
    /\ nCalls' = nCalls + 1
    /\ LET n == Len(holdings)
       IN IF failAt = 0
          THEN /\ holdingsDb' = holdingsDb
               /\ ret' = DbRet("SaveHoldings", c, userID, "begin failed",
                                 failAt)
          ELSE IF failAt <= n + 1
          THEN /\ holdingsDb' = Rollback(holdingsDb,
                      TxView(holdingsDb, userID, holdings, failAt - 1))
               /\ ret' = DbRet("SaveHoldings", c, userID, "exec failed",
                                 failAt)
          ELSE IF failAt = n + 2
          THEN /\ holdingsDb' = holdingsDb
               /\ ret' = DbRet("SaveHoldings", c, userID, "commit failed",
                                 failAt)
          ELSE /\ holdingsDb' = TxView(holdingsDb, userID, holdings, n + 1)
               /\ ret' = DbRet("SaveHoldings", c, userID, "", failAt)
    /\ UNCHANGED <<credRows, saveCalls, now, lvars, snapshotAt, pcall,
                   pret, lastRefreshTime, clients, fvars, avars, nvars>>

NextDatabase ==
    \/ \E c \in Conns, u \in Users, b \in Brokers, k \in ApiKeys,
          selectOk \in BOOLEAN :
            SaveCredentialsSelect(c, u, b, k, selectOk)
    \/ \E c \in Conns : SaveCredentialsExec(c)
    \/ \E c \in Conns, u \in Users, b \in Brokers :
            DeleteCredentialsExec(c, u, b)
    \/ \E c \in Conns, u \in Users, hs \in ListsToSave :
          \E failAt \in FailPoints(hs) : SaveHoldings(c, u, hs, failAt)

SpecDatabase == InitDatabase /\ [][NextDatabase]_vars

(* ==================== properties of the database ======================= *)
(* C32: the broker_credentials table holds at most one row for a user and  *)
(* a broker type, also when SaveCredentials is repeated for the pair and   *)
(* when two calls for the pair run side by side.                            *)
C32_OneCredentialPerPair ==
    \A u \in Users, b \in Brokers :
        Cardinality(RowsOf(credRows, u, b)) <= 1

(* Two calls for one pair both saw no row; the second INSERT was refused. *)
C32_Witness ==
    /\ ret.op = "SaveCredentials"
    /\ ret.err = "unique violation"
    /\ \E u \in Users, b \in Brokers :
          Cardinality(RowsOf(credRows, u, b)) = 1

(* C40: a SaveHoldings that returns an error leaves the holdings of its    *)
(* user as they were before the call, at whichever step it failed, and no  *)
(* SaveHoldings changes the holdings of another user.                       *)
C40_SaveHoldingsAllOrNothing ==
    [][ret'.op = "SaveHoldings" =>
          /\ ret'.err # "" => holdingsDb' = holdingsDb
          /\ \A v \in Users \ {ret'.userID} :
                holdingsDb'[v] = holdingsDb[v]]_vars

(* An INSERT failed after the DELETE and an INSERT of the transaction had  *)
(* run, and the user still has the holdings of before.                      *)
C40_Witness ==
    /\ ret.op = "SaveHoldings"
    /\ ret.err = "exec failed"
    /\ ret.failAt = 3
    /\ holdingsDb[ret.userID] = Stamp(<<INFY, FUND>>, PlatformZerodha, 0)

(* ========================= session authentication ====================== *)
(* The SessionAuth middleware over the sessions table, with the handler    *)
(* that creates sessions.  A request names the user in its path and        *)
(* carries a session token, or none.                                        *)
MaxSessions == 2
SessionTTL == 24

(* The session id NewUserSession draws for the n-th session. *)
SessionID(n) == "s" \o ToString(n)

SessionTokens == {"", "bogus"} \cup {SessionID(n) : n \in 1..MaxSessions}

(* UserSession.IsValid at hour t. *)
IsValid(s, t) == t < s.ExpiresAt

(* GetSession: WHERE s.session_id = $1. *)
SessionsOfToken(rows, token) == {s \in rows : s.SessionID = token}

(* GetUserSession: WHERE s.user_id = $1; QueryRow takes one of the rows. *)
SessionsOfUser(rows, userID) == {s \in rows : s.UserID = userID}

InitAuth ==
    /\ now = 0
    /\ store = <<>>
    /\ cache = <<>>
    /\ call = NoCall
    /\ ret = NoAuthRet
    /\ readers = 0
    /\ sweepPc = "idle"
    /\ sweepCreds = <<>>
    /\ sweepIdx = 0
    /\ nTicks = 0
    /\ nLogins = 0
    /\ tickPending = FALSE
    /\ sweepsRunning = 0
    /\ PortfolioInit
    /\ MergeInit
    /\ OtherInit

(* SessionHandler.CreateSession for the user of an email: it answers with  *)
(* the session GetUserSession returned when that one is valid, and inserts *)
(* a new one otherwise.                                                     *)
CreateSession(userID) ==
    /\ LET ofUser == SessionsOfUser(sessions, userID)
       IN \/ /\ \E existing \in ofUser : IsValid(existing, now)
             /\ UNCHANGED <<sessions, nCalls>>
          \/ /\ ofUser = {} \/ \E existing \in ofUser : ~IsValid(existing, now)
             /\ nCalls < MaxSessions
             /\ nCalls' = nCalls + 1
             /\ sessions' = sessions \cup
                   {[SessionID |-> SessionID(nCalls'),
                     UserID |-> userID,
                     ExpiresAt |-> now + SessionTTL]}
    /\ ret' = NoAuthRet
    /\ UNCHANGED <<now, lvars, pvars, fvars, dvars, nvars>>

(* SessionRepo.DeleteSession. *)
DeleteSession(token) ==
    /\ SessionsOfToken(sessions, token) # {}
    /\ sessions' = sessions \ SessionsOfToken(sessions, token)
    /\ ret' = NoAuthRet
    /\ UNCHANGED <<nCalls, now, lvars, pvars, fvars, dvars, nvars>>

(* The clock moves while no request is being served. *)
SessionClock(d) ==
    /\ nTicks < MaxTicks
    /\ nTicks' = nTicks + 1
    /\ now' = now + d
    /\ ret' = NoAuthRet
    /\ UNCHANGED <<store, cache, call, readers, sweepPc, sweepCreds,
                   sweepIdx, nLogins, tickPending, sweepsRunning>>
    /\ UNCHANGED <<sessions, nCalls, pvars, fvars, dvars, nvars>>

(* SessionAuth on one request: the session of the token is tried first;    *)
(* when that does not pass, the middleware asks for a session of the user  *)
(* of the path and lets the request through when that one is valid.        *)
SessionAuth(userID, token, tokenDbOk, userDbOk) ==
    /\ LET byToken == SessionsOfToken(sessions, token)
           tokenPasses ==
               /\ token # ""
               /\ tokenDbOk
               /\ \E s \in byToken : IsValid(s, now) /\ s.UserID = userID
           ofUser == SessionsOfUser(sessions, userID)
       IN IF userID = ""
          THEN ret' = AuthRet(userID, token, "unauthorized")
          ELSE IF tokenPasses
          THEN ret' = AuthRet(userID, token, "next")
          ELSE IF ~userDbOk
          THEN ret' = AuthRet(userID, token, "error")
          ELSE IF ofUser = {}
          THEN ret' = AuthRet(userID, token, "unauthorized")
          ELSE \E s \in ofUser :
                  ret' = AuthRet(userID, token,
                      IF IsValid(s, now) THEN "next" ELSE "unauthorized")
    /\ UNCHANGED <<sessions, nCalls, now, lvars, pvars, fvars, dvars, nvars>>

NextAuth ==
    \/ \E u \in Users : CreateSession(u)
    \/ \E t \in SessionTokens : DeleteSession(t)
    \/ \E d \in TickSteps : SessionClock(d)
    \/ \E u \in Users \cup {""}, t \in SessionTokens,
          tokenDbOk \in BOOLEAN, userDbOk \in BOOLEAN :
            SessionAuth(u, t, tokenDbOk, userDbOk)

SpecAuth == InitAuth /\ [][NextAuth]_vars

(* ================ properties of session authentication ================= *)
(* C33: a request that SessionAuth lets through carries the token of a     *)
(* session that belongs to the user of the path and has not expired.       *)
C33_PassesOnlyWithOwnValidSession ==
    ret.status = "next" =>
        \E s \in sessions :
            /\ s.SessionID = ret.token
            /\ s.UserID = ret.userID
            /\ IsValid(s, now)

(* ================================ news ================================= *)
(* The RecommendationCache over go-cache and the source list of the        *)
(* NewsFetcher.  Here the clock counts instants; every Set takes one, so   *)
(* no two items carry the same expiration.                                  *)
MaxSets == 3
MaxItems == 2
RecTTL == 24

(* Keys are the links of news items; an item may come without a link. *)
RecKeys == {"", "key-0", "key-1"}

SourceNames == {"", "MoneyControl", "Test Source"}
SourceURLs == {"", "http://example.com/feed"}

ErrSourceExists == "source already exists"
ErrSourceNotFound == "source not found"

(* cache.Items(): the keys of the items that have not expired. *)
Items(c, t) == {k \in DOMAIN c : ~Expired(c[k], t)}

(* cache.ItemCount(): the items of the map, expired ones included. *)
ItemCount(c) == Cardinality(DOMAIN c)

(* The orders in which a range over a map of these keys can run. *)
Orders(keys) ==
    {o \in [1..Cardinality(keys) -> keys] :
        \A i, j \in DOMAIN o : i # j => o[i] # o[j]}

(* The loop of removeOldest over the keys in one order: the key it holds   *)
(* after the last of them.  oldestTime is the expiration of the key held,  *)
(* 0 (the zero time) before the first.                                      *)
RECURSIVE OldestKey(_, _, _, _)
OldestKey(c, order, oldestKey, oldestTime) ==
    IF order = <<>> THEN oldestKey
    ELSE IF oldestKey = "" \/ c[Head(order)].Expiration < oldestTime
         THEN OldestKey(c, Tail(order), Head(order),
                        c[Head(order)].Expiration)
         ELSE OldestKey(c, Tail(order), oldestKey, oldestTime)

removeOldest(c, order) ==
    LET oldestKey == OldestKey(c, order, "", 0)
    IN IF oldestKey # "" THEN CacheDelete(c, oldestKey) ELSE c

InitNews ==
    /\ now = 0
    /\ store = <<>>
    /\ cache = <<>>
    /\ call = NoCall
    /\ ret = NoNewsRet
    /\ readers = 0
    /\ sweepPc = "idle"
    /\ sweepCreds = <<>>
    /\ sweepIdx = 0
    /\ nTicks = 0
    /\ nLogins = 0
    /\ tickPending = FALSE
    /\ sweepsRunning = 0
    /\ PortfolioInit
    /\ MergeInit
    /\ OtherInit

(* RecommendationCache.Set.  The range of removeOldest over the items runs *)
(* in any order.                                                            *)
RecSet(key) ==
    /\ nCalls < MaxSets
    /\ nCalls' = nCalls + 1
    /\ \E order \in Orders(Items(recCache, now)) :
          recCache' = CacheSet(
              IF ItemCount(recCache) >= MaxItems
              THEN removeOldest(recCache, order) ELSE recCache,
              key, "recommendation", RecTTL, now)
    /\ now' = now + 1
    /\ ret' = NewsRet("Set", Source(key, ""), "")
    /\ UNCHANGED <<sources, lvars, pvars, fvars, dvars, avars>>

(* RecommendationCache.Remove *)
RecRemove(key) ==
    /\ key \in DOMAIN recCache
    /\ recCache' = CacheDelete(recCache, key)
    /\ ret' = NewsRet("Remove", Source(key, ""), "")
    /\ UNCHANGED <<nCalls, sources, now, lvars, pvars, fvars, dvars, avars>>

(* RecommendationCache.Clear *)
RecClear ==
    /\ recCache # <<>>
    /\ recCache' = <<>>
    /\ ret' = NewsRet("Clear", Source("", ""), "")
    /\ UNCHANGED <<nCalls, sources, now, lvars, pvars, fvars, dvars, avars>>

(* A tick of the cleanup goroutine. *)
RecCleanup ==
    /\ recCache # DeleteExpired(recCache, now)
    /\ recCache' = DeleteExpired(recCache, now)
    /\ ret' = NoNewsRet
    /\ UNCHANGED <<nCalls, sources, now, lvars, pvars, fvars, dvars, avars>>

(* The time to live of the items passes. *)
RecClock ==
    /\ nTicks < MaxTicks
    /\ nTicks' = nTicks + 1
    /\ now' = now + RecTTL
    /\ ret' = NoNewsRet
    /\ UNCHANGED <<store, cache, call, readers, sweepPc, sweepCreds,
                   sweepIdx, nLogins, tickPending, sweepsRunning>>
    /\ UNCHANGED <<recCache, nCalls, sources, pvars, fvars, dvars, avars>>

(* NewsFetcher.AddSource *)
AddSource(source) ==
    /\ IF \E i \in 1..Len(sources) : sources[i].Name = source.Name
       THEN /\ ret' = NewsRet("AddSource", source, ErrSourceExists)
            /\ sources' = sources
       ELSE /\ ret' = NewsRet("AddSource", source, "")
            /\ sources' = Append(sources, source)
    /\ UNCHANGED <<recCache, nCalls, now, lvars, pvars, fvars, dvars, avars>>

(* NewsFetcher.RemoveSource: the first source of the name goes. *)
RemoveSource(name) ==
    /\ LET found == {i \in 1..Len(sources) : sources[i].Name = name}
       IN IF found = {}
          THEN /\ ret' = NewsRet("RemoveSource", Source(name, ""),
                                     ErrSourceNotFound)
               /\ sources' = sources
          ELSE LET i == CHOOSE k \in found : \A j \in found : k <= j
               IN /\ ret' = NewsRet("RemoveSource", Source(name, ""), "")
                  /\ sources' = SubSeq(sources, 1, i - 1)
                                   \o SubSeq(sources, i + 1, Len(sources))
    /\ UNCHANGED <<recCache, nCalls, now, lvars, pvars, fvars, dvars, avars>>

NextNews ==
    \/ \E key \in RecKeys : RecSet(key)
    \/ \E key \in RecKeys : RecRemove(key)
    \/ RecClear
    \/ RecCleanup
    \/ RecClock
    \/ \E n \in SourceNames, u \in SourceURLs : AddSource(Source(n, u))
    \/ \E n \in SourceNames : RemoveSource(n)

SpecNews == InitNews /\ [][NextNews]_vars

(* ========================= properties of news ========================== *)
(* C34: whatever Set, Remove and Clear calls were made, the cache holds at *)
(* most MaxItems recommendations (those GetAll returns).                    *)
C34_AtMostMaxItems ==
    Cardinality(Items(recCache, now)) <= MaxItems

(* C35: AddSource answers ErrSourceExists for a name that is configured    *)
(* and an error for an empty name or an empty URL, and a call that answers *)
(* an error leaves the list of sources as it was.                           *)
C35_AddSourceRejectsInvalid ==
    [][ret'.op = "AddSource" =>
          LET source == ret'.source
          IN /\ (\E i \in 1..Len(sources) : sources[i].Name = source.Name)
                   => ret'.err = ErrSourceExists
             /\ (source.Name = "" \/ source.URL = "") => ret'.err # ""
             /\ ret'.err # "" => sources' = sources]_vars
====
